---- MODULE Spec2Model ----
(***************************************************************************)
(* Drug-safety API (pms-agent-api): the request route of                   *)
(* app/routes/drug.py with its result cache, the basic LangGraph workflow  *)
(* of app/services/ai/basic_analyzer.py, and the multi-source pipeline of  *)
(* app/services/ai/deep_analyzer.py with the synthesis stage of            *)
(* app/services/ai/utils.py.                                               *)
(*                                                                         *)
(* Conventions.  Confidence scores are kept in hundredths (0.3 is 30).     *)
(* Python strings are TLA+ strings; str.strip and str.lower are computed   *)
(* on the finite universe of strings the model draws its inputs from.      *)
(* A value that Python would hold as None is a record with present=FALSE.  *)
(***************************************************************************)
EXTENDS Integers, Sequences, FiniteSets, TLC

\* ------------------------------------------------------------------ bounds
\* The clock runs from 0 to MaxTime.
MaxTime == 2
\* Number of operations (requests and direct stores) served on one database.
MaxRequests == 2

\* drug_safety_data.expires_at = fetched_at + TTL (column defaults of
\* init-schema.sql, which the INSERT statements rely on).
TTL == 2

\* ----------------------------------------------------------------- strings
\* str.strip() on the strings of the model.
Strip(s) ==
    CASE s = " " -> ""
      [] s = " Safe\n" -> "Safe"
      [] s = " Use with care. " -> "Use with care."
      [] OTHER -> s

\* str.lower() / SQL LOWER() on the strings of the model.
Lower(s) ==
    CASE s = "Tylenol" -> "tylenol"
      [] s = "Advil" -> "advil"
      [] s = "First" -> "first"
      [] s = "Safe" -> "safe"
      [] s = "Avoid" -> "avoid"
      [] s = "Probably safe" -> "probably safe"
      [] s = "First trimester" -> "first trimester"
      [] s = "Risk" -> "risk"
      [] OTHER -> s

\* Drug names a caller may send: case variants of one drug, another drug,
\* the empty name and a whitespace-only name.
Names == {"Tylenol", "tylenol", "Advil", "", " "}

\* The safety taxonomy of base_analyzer_class.py.
valid_safety_values == {"safe", "caution", "avoid", "unknown"}

\* ------------------------------------------------------------ JSON values
Str(t) == [kind |-> "str", text |-> t, context |-> {}]
Dict(t, c) == [kind |-> "dict", text |-> t, context |-> c]

DefaultWarnings == <<Str("Consult healthcare provider")>>
TwoWarnings == <<Str("w1"), Str("w2")>>
SixWarnings == <<Str("w1"), Str("w2"), Str("w3"), Str("w4"), Str("w5"), Str("w6")>>
DictWarnings == <<Dict("w1", {}), Dict("w2", {"pregnancy"})>>
\* Warnings tagged with contexts: two for pregnancy, two for breastfeeding.
TaggedWarnings ==
    <<Dict("w1", {"pregnancy"}), Dict("w2", {}),
      Dict("w3", {"pregnancy", "breastfeeding"}), Dict("w4", {"breastfeeding"})>>

\* json.loads on the texts the model's synthesis provider may answer a
\* warnings prompt with: ok is FALSE where json.loads raises JSONDecodeError.
JsonLoads(text) ==
    CASE text = "[w1,w2]" -> [ok |-> TRUE, type |-> "list", items |-> TwoWarnings]
      [] text = "[w1..w6]" -> [ok |-> TRUE, type |-> "list", items |-> SixWarnings]
      [] text = "[{w1},{w2}]" -> [ok |-> TRUE, type |-> "list", items |-> DictWarnings]
      [] text = "{a:1}" -> [ok |-> TRUE, type |-> "object", items |-> <<>>]
      [] OTHER -> [ok |-> FALSE, type |-> "none", items |-> <<>>]

\* ------------------------------------------------- the synthesis provider
\* One answer of client.invoke: it raises, or it returns this content.
Raises == [raises |-> TRUE, content |-> ""]
Says(t) == [raises |-> FALSE, content |-> t]

\* What the provider answers to the four narrow prompts of one request.
Script(p, b, w, s) == [preg |-> p, bf |-> b, warn |-> w, sum |-> s]

NominalScript == Script(Says(" Safe\n"), Says("Avoid"), Says("[w1,w2]"), Says(" Use with care. "))
\* The provider is unreachable: every invoke raises.
DownScript == Script(Raises, Raises, Raises, Raises)

\* Scripts of the requests that go through the route: the nominal answers,
\* an answer outside the taxonomy, over-long and non-string warnings, and
\* the provider down.
RouteScripts ==
    { NominalScript,
      [NominalScript EXCEPT !.preg = Says("Probably safe"),
                            !.warn = Says("[w1..w6]")],
      [NominalScript EXCEPT !.warn = Says("[{w1},{w2}]")],
      DownScript }

\* ---------------------------------------------------- regulatory labels
NoData == [present |-> FALSE]

\* FDAClient._extract_relevant_sections on a label with openfda names,
\* category and both text sections, and on a label that has none of them.
FdaFull == [present |-> TRUE, generic_names |-> <<"acetaminophen">>,
            pregnancy_category |-> "B", has_text |-> TRUE]
FdaBare == [present |-> TRUE, generic_names |-> <<>>,
            pregnancy_category |-> "None", has_text |-> FALSE]

\* FDAClient.search_drug_label: None on an exception, a non-200 status or
\* an empty result list, else the extracted sections.
search_drug_label(outcome) ==
    CASE outcome = "error" -> NoData
      [] outcome = "no_results" -> NoData
      [] outcome = "full" -> FdaFull
      [] outcome = "bare" -> FdaBare

FdaOutcomes == {"error", "no_results", "full", "bare"}

\* DrugSafetyAI.get_pubmed_count: the mock table, keyed by the lowered name.
get_pubmed_count(drug_name) ==
    CASE Lower(drug_name) = "tylenol" -> 1250
      [] Lower(drug_name) = "zoloft" -> 845
      [] Lower(drug_name) = "amoxicillin" -> 2100
      [] OTHER -> 10

\* ------------------------------------------------------------------ state
VARIABLES
    now,        \* the database clock, NOW()
    drugs,      \* table drugs: name -> generic_name
    rows,       \* table drug_safety_data, in insertion order
    served,     \* operations completed so far
    pc,         \* where the current request stands
    req,        \* the current request: entry point, drug_name, enhanced
    llm,        \* what the synthesis provider answers during this request
    fda_data,   \* result of the regulatory-label fetch
    wf,         \* DrugAnalysisState of the LangGraph workflow
    trace,      \* workflow nodes executed, in order
    ai_analysis,\* result of analyze_fda_data
    hit,        \* what get_from_database found
    outcome,    \* what the caller receives
    calls,      \* calls made for this request, per collaborator, and the
                \* storage failures logged
    medical_context,   \* is_pregnant, is_breastfeeding, trimester
    fetched,    \* fan-out tasks that have completed
    failed,     \* providers whose fetch failed during this request
    dailymed_data,     \* result of the structured-label fetch
    pubmed_data,       \* result of the literature-index fetch
    biobert_extracted, \* result of the entity extraction
    synth_answer,      \* what the provider answered to the synthesis prompt
    synthesis,  \* result of SynthesisOrchestrator.synthesize_all_sources
    writers,    \* calls of store_drug_data in progress, per caller
    biobert_text,    \* the text handed to BioBERTAnalyzer.extract_pregnancy_risks
    trimester_risks, \* the trimester_specific lists it returned
    model_loaded     \* BioBERTAnalyzer.model_loaded of the analyzer in use

\* State of the multi-source pipeline.
pipeline_vars == <<medical_context, fetched, failed, dailymed_data,
                   pubmed_data, biobert_extracted, synth_answer, synthesis>>

vars == <<now, drugs, rows, served, pc, req, llm, fda_data, wf, trace,
          ai_analysis, hit, outcome, calls, medical_context, fetched, failed,
          dailymed_data, pubmed_data, biobert_extracted, synth_answer,
          synthesis, writers, biobert_text, trimester_risks, model_loaded>>

\* Callers that may be inside store_drug_data at the same time.
MaxWriters == 2
Writers == 1..MaxWriters
NoStore == [step |-> "none"]

NoRequest == [entry |-> "none", drug_name |-> "", enhanced |-> FALSE]
NoCalls == [fda |-> 0, dailymed |-> 0, pubmed |-> 0, llm |-> 0,
            db_read |-> 0, db_write |-> 0, store_errors |-> 0]
NoContext == [is_pregnant |-> FALSE, is_breastfeeding |-> FALSE,
              trimester |-> "None"]
NoOutcome == [kind |-> "none"]
NoAnalysis == [present |-> FALSE]
\* What get_from_database found: queried tells that its SELECT ran.
NoRow == [present |-> FALSE, queried |-> FALSE]
Missed == [present |-> FALSE, queried |-> TRUE]
Found(r) == [present |-> TRUE, queried |-> TRUE, row |-> r]
InitialState(drug_name, data) ==
    [drug_name |-> drug_name, fda_data |-> data, pregnancy_safety |-> "",
     breastfeeding_safety |-> "", warnings |-> <<>>, summary |-> "",
     error |-> "None"]

Init ==
    /\ now = 0
    /\ drugs = << >>
    /\ rows = << >>
    /\ served = 0
    /\ pc = "idle"
    /\ req = NoRequest
    /\ llm = NominalScript
    /\ fda_data = NoData
    /\ wf = InitialState("", NoData)
    /\ trace = << >>
    /\ ai_analysis = NoAnalysis
    /\ hit = NoRow
    /\ outcome = NoOutcome
    /\ calls = NoCalls
    /\ medical_context = NoContext
    /\ fetched = {}
    /\ failed = {}
    /\ dailymed_data = NoData
    /\ pubmed_data = NoData
    /\ biobert_extracted = NoData
    /\ synth_answer = Raises
    /\ synthesis = NoAnalysis
    /\ writers = [w \in Writers |-> NoStore]
    /\ biobert_text = << >>
    /\ model_loaded = TRUE
    /\ trimester_risks = [first |-> << >>, second |-> << >>, third |-> << >>]

\* ------------------------------------------------------------- responses
\* DrugSafetyResponse (app/data/models.py): warnings is Optional[List[str]],
\* so a warnings list holding anything but strings fails validation.
ResponseValid(r) == \A i \in 1..Len(r.warnings) : r.warnings[i].kind = "str"

DrugSafetyResponse(name, category, preg, bf, rec, conf, warnings) ==
    [kind |-> "verdict", drug_name |-> name, pregnancy_category |-> category,
     pregnancy_safety |-> preg, breastfeeding_safety |-> bf,
     recommendations |-> rec, confidence |-> conf, warnings |-> warnings]

HTTPException(status) == [kind |-> "http", status_code |-> status]

\* The request is over with outcome o.
Reply(o) == /\ outcome' = o
            /\ pc' = "done"

Called(who) == calls' = [calls EXCEPT ![who] = @ + 1]

\* ------------------------------------------------------- the result cache
\* get_from_database, drug.py:132.
data_source_filter(enhanced) ==
    IF enhanced THEN "enhanced_multi_source" ELSE "fda_ai"

\* Two variants of the WHERE clause held against it below: one without the
\* data_source test, one without the expires_at test.
RowMatches_any_source(r, drug_name, enhanced, t) ==
    /\ \/ Lower(r.drug) = Lower(drug_name)
       \/ Lower(drugs[r.drug]) = Lower(drug_name)
    /\ r.expires_at > t

RowMatches_any_age(r, drug_name, enhanced, t) ==
    /\ \/ Lower(r.drug) = Lower(drug_name)
       \/ Lower(drugs[r.drug]) = Lower(drug_name)
    /\ r.data_source = data_source_filter(enhanced)

\* A third variant: the names are compared as they are written.
RowMatches_case_sensitive(r, drug_name, enhanced, t) ==
    /\ \/ r.drug = drug_name
       \/ drugs[r.drug] = drug_name
    /\ r.expires_at > t
    /\ r.data_source = data_source_filter(enhanced)

\* The WHERE clause of get_from_database (drug.py:138-141) on the join of
\* drugs and drug_safety_data, evaluated at time t.
RowMatches(r, drug_name, enhanced, t) ==
    /\ \/ Lower(r.drug) = Lower(drug_name)
       \/ Lower(drugs[r.drug]) = Lower(drug_name)
    /\ r.expires_at > t
    /\ r.data_source = data_source_filter(enhanced)

\* ORDER BY ds.fetched_at DESC LIMIT 1 (drug.py:142-143): the rows the
\* query may return; more than one only when fetched_at ties.
LookupRows(drug_name, enhanced, t) ==
    LET S == {i \in 1..Len(rows) : RowMatches(rows[i], drug_name, enhanced, t)}
    IN  {i \in S : \A j \in S : rows[j].fetched_at <= rows[i].fetched_at}

\* drug.py:147-155, the response built from a row.
RowResponse(r) ==
    DrugSafetyResponse(r.drug, r.pregnancy_category, r.pregnancy_safety,
                       r.breastfeeding_safety, r.ai_summary,
                       IF r.confidence_score > 70 THEN "high" ELSE "moderate",
                       r.key_warnings)

\* The row store_drug_data inserts (drug.py:278-297); fetched_at and
\* expires_at take the column defaults.
BasicRow(drug_name, data, analysis, study_count, data_source, t) ==
    [present |-> TRUE, drug |-> drug_name, data_source |-> data_source,
     fetched_at |-> t, expires_at |-> t + TTL,
     pregnancy_category |-> data.pregnancy_category,
     pregnancy_safety |-> analysis.pregnancy_safety,
     breastfeeding_safety |-> analysis.breastfeeding_safety,
     ai_summary |-> analysis.summary,
     key_warnings |-> analysis.warnings,
     confidence_score |-> IF study_count > 100 THEN 90 ELSE 60,
     study_count |-> study_count]

\* INSERT INTO drugs ... ON CONFLICT (name) DO UPDATE SET name = $1, then
\* INSERT INTO drug_safety_data (drug.py:266-297, 315-353).
Insert(drug_name, generic_name, row) ==
    /\ drugs' = IF drug_name \in DOMAIN drugs THEN drugs
                ELSE drugs @@ (drug_name :> generic_name)
    /\ rows' = Append(rows, row)

\* ------------------------------------------------- the route, drug.py
\* A caller sends GET /api/drug/{drug_name}?enhanced=...
Receive ==
    /\ pc = "idle"
    /\ served < MaxRequests
    /\ \E n \in Names, e \in BOOLEAN, s \in RouteScripts :
          /\ req' = [entry |-> "http", drug_name |-> n, enhanced |-> e]
          /\ llm' = s
    /\ pc' = "validate"
    /\ UNCHANGED <<biobert_text, trimester_risks, model_loaded, writers, now,
                   drugs, rows, served, fda_data, wf, trace,
                   ai_analysis, hit, outcome, calls>>
    /\ UNCHANGED pipeline_vars

\* not drug_name or not drug_name.strip(), drug.py:87.  The variant held
\* against it tests the empty string alone.
NameIsBlank_empty_only(drug_name) == drug_name = ""

NameIsBlank(drug_name) == drug_name = "" \/ Strip(drug_name) = ""

\* get_drug_safety, drug.py:86-88 and 99-100: the HTTPException is raised
\* again as it is.
ValidateName ==
    /\ pc = "validate"
    /\ IF NameIsBlank(req.drug_name)
       THEN Reply(HTTPException(400))
       ELSE pc' = "lookup" /\ UNCHANGED outcome
    /\ UNCHANGED <<biobert_text, trimester_risks, model_loaded, writers, now,
                   drugs, rows, served, req, llm, fda_data, wf, trace,
                   ai_analysis, hit, calls>>
    /\ UNCHANGED pipeline_vars

\* A variant held against after_lookup below: the analysis runs whatever
\* the lookup returned.
after_lookup_always_analyze(drug_data) == "analyze"

\* get_drug_safety, drug.py:90-97: a response from the database is
\* returned, None goes on to analyze.
after_lookup(drug_data) == IF drug_data THEN "done" ELSE "analyze"

\* get_from_database, drug.py:128-161: a hit answers the request; a miss,
\* a database error or a row that DrugSafetyResponse rejects is None.
GetFromDatabase ==
    /\ pc = "lookup"
    /\ Called("db_read")
    /\ \E db_ok \in BOOLEAN :
          LET found == IF db_ok
                       THEN LookupRows(req.drug_name, req.enhanced, now)
                       ELSE {}
          IN  IF found # {}
              THEN \E i \in found :
                     IF ResponseValid(RowResponse(rows[i]))
                     THEN /\ hit' = Found(rows[i])
                          /\ outcome' = RowResponse(rows[i])
                          /\ pc' = after_lookup(TRUE)
                     ELSE /\ hit' = Missed
                          /\ pc' = after_lookup(FALSE)
                          /\ UNCHANGED outcome
              ELSE /\ hit' = IF db_ok THEN Missed ELSE NoRow
                   /\ pc' = after_lookup(FALSE)
                   /\ UNCHANGED outcome
    /\ UNCHANGED <<biobert_text, trimester_risks, model_loaded, writers, now,
                   drugs, rows, served, req, llm, fda_data, wf, trace,
                   ai_analysis>>
    /\ UNCHANGED pipeline_vars

\* analyze and get_analyzer, drug.py:109-125 and 21-51: constructing the
\* analyzer may fail, which get_analyzer turns into HTTP 503.
Analyze ==
    /\ pc = "analyze"
    /\ \E constructed \in BOOLEAN :
          IF constructed
          THEN /\ pc' = IF req.enhanced THEN "enhanced" ELSE "fetch"
               /\ UNCHANGED outcome
          ELSE Reply(HTTPException(503))
    /\ UNCHANGED <<biobert_text, trimester_risks, model_loaded, writers, now,
                   drugs, rows, served, req, llm, fda_data, wf, trace,
                   ai_analysis, hit, calls>>
    /\ UNCHANGED pipeline_vars

\* A variant held against analyze_drug_comprehensive below: the attempt
\* fetches the regulatory label before it raises.
analyze_drug_comprehensive_fetching(c) == [c EXCEPT !.fda = @ + 1]

\* The calls made by analyzer.analyze_drug_comprehensive(drug_name),
\* drug.py:214: the attribute lookup raises, no collaborator is called.
analyze_drug_comprehensive(c) == c

\* fetch_and_analyze_enhanced, drug.py:209-258.  EnhancedDrugAnalyzer and
\* its base class define fetch_and_analyze but no analyze_drug_comprehensive
\* (deep_analyzer.py:30-238, base_analyzer_class.py:57-199), so the call of
\* line 214 raises AttributeError; the handler of lines 253-258 logs it,
\* builds the basic analyzer and hands the request to fetch_and_analyze.
FetchAndAnalyzeEnhanced ==
    /\ pc = "enhanced"
    /\ calls' = analyze_drug_comprehensive(calls)
    /\ \E constructed \in BOOLEAN :
          IF constructed
          THEN pc' = "fetch" /\ UNCHANGED outcome
          ELSE Reply(HTTPException(503))
    /\ UNCHANGED <<biobert_text, trimester_risks, model_loaded, writers, now,
                   drugs, rows, served, req, llm, fda_data, wf, trace,
                   ai_analysis, hit>>
    /\ UNCHANGED pipeline_vars

\* A variant held against no_label below: the analysis goes on whatever
\* the fetch returned.
no_label_ignored(data) == FALSE

\* if not fda_data, drug.py:169.
no_label(data) == ~data.present

\* fetch_and_analyze, drug.py:168-178: the regulatory-label fetch and the
\* answer given when it found nothing.
FdaFetch ==
    /\ pc = "fetch"
    /\ Called("fda")
    /\ \E o \in FdaOutcomes :
          LET data == search_drug_label(o)
          IN  /\ fda_data' = data
              /\ IF ~no_label(data)
                 THEN /\ wf' = InitialState(req.drug_name, data)
                      /\ pc' = "validate_data"
                      /\ UNCHANGED outcome
                 ELSE /\ Reply(DrugSafetyResponse(
                              req.drug_name, "Unknown", "unknown", "unknown",
                              "No FDA data available. Consult healthcare provider.",
                              "low", << >>))
                      /\ UNCHANGED wf
    /\ UNCHANGED <<biobert_text, trimester_risks, model_loaded, writers, now,
                   drugs, rows, served, req, llm, trace, ai_analysis, hit>>
    /\ UNCHANGED pipeline_vars

\* --------------------------- the basic workflow, basic_analyzer.py:34-178
\* The node has run: it is recorded and the graph moves along its edge.
Node(name, next) ==
    /\ pc = name
    /\ trace' = Append(trace, name)
    /\ pc' = next

\* A variant held against edge below: generate_summary is followed by
\* handle_error.
edge_through_handle_error(n) ==
    CASE n = "analyze_pregnancy" -> "analyze_breastfeeding"
      [] n = "analyze_breastfeeding" -> "extract_warnings"
      [] n = "extract_warnings" -> "generate_summary"
      [] n = "generate_summary" -> "handle_error"
      [] n = "handle_error" -> "END"

\* The unconditional edges of _build_workflow, basic_analyzer.py:55-59.
edge(n) ==
    CASE n = "analyze_pregnancy" -> "analyze_breastfeeding"
      [] n = "analyze_breastfeeding" -> "extract_warnings"
      [] n = "extract_warnings" -> "generate_summary"
      [] n = "generate_summary" -> "END"
      [] n = "handle_error" -> "END"

\* A variant held against validate_error below: the label is not looked at.
validate_error_name_only(state) ==
    IF state.drug_name = "" THEN "Drug name is required" ELSE "None"

\* _validate_data, with the conditional edge of _build_workflow.
validate_error(state) ==
    IF state.drug_name = "" THEN "Drug name is required"
    ELSE IF ~state.fda_data.present THEN "FDA data is required"
    ELSE "None"

validate_data ==
    /\ Node("validate_data",
            IF validate_error(wf) # "None" THEN "handle_error"
            ELSE "analyze_pregnancy")
    /\ wf' = [wf EXCEPT !.error = validate_error(wf)]
    /\ UNCHANGED <<biobert_text, trimester_risks, model_loaded, writers, now,
                   drugs, rows, served, req, llm, fda_data,
                   ai_analysis, hit, outcome, calls>>
    /\ UNCHANGED pipeline_vars

\* A variant held against safety_word below: the node without its
\* try/except, whose field keeps the initial "" when invoke raises.
safety_word_unguarded(answer) == Lower(Strip(answer.content))

\* The value _analyze_pregnancy and _analyze_breastfeeding return for an
\* answer of the provider: response.content.strip().lower(), or "unknown"
\* when invoke raised.
safety_word(answer) ==
    IF answer.raises THEN "unknown" ELSE Lower(Strip(answer.content))

analyze_pregnancy ==
    /\ Node("analyze_pregnancy", edge("analyze_pregnancy"))
    /\ Called("llm")
    /\ wf' = [wf EXCEPT !.pregnancy_safety = safety_word(llm.preg)]
    /\ UNCHANGED <<biobert_text, trimester_risks, model_loaded, writers, now,
                   drugs, rows, served, req, llm, fda_data,
                   ai_analysis, hit, outcome>>
    /\ UNCHANGED pipeline_vars

\* A variant held against breastfeeding_update below: on a failure the node
\* returns every default, as _fallback_response does.
breastfeeding_update_fallback(state, answer) ==
    IF answer.raises
    THEN [state EXCEPT !.pregnancy_safety = "unknown",
                       !.breastfeeding_safety = "unknown",
                       !.warnings = DefaultWarnings,
                       !.summary = "Unable to analyze {drug_name}. Please consult your healthcare provider."]
    ELSE [state EXCEPT !.breastfeeding_safety = safety_word(answer)]

\* The dict _analyze_breastfeeding returns holds the one key
\* breastfeeding_safety (basic_analyzer.py:115-119), which the graph merges
\* into its state.
breastfeeding_update(state, answer) ==
    [state EXCEPT !.breastfeeding_safety = safety_word(answer)]

analyze_breastfeeding ==
    /\ Node("analyze_breastfeeding", edge("analyze_breastfeeding"))
    /\ Called("llm")
    /\ wf' = breastfeeding_update(wf, llm.bf)
    /\ UNCHANGED <<biobert_text, trimester_risks, model_loaded, writers, now,
                   drugs, rows, served, req, llm, fda_data,
                   ai_analysis, hit, outcome>>
    /\ UNCHANGED pipeline_vars

\* _extract_warnings: the decoded list, or the default when invoke or
\* json.loads raised or the decoded value is no list.
warnings_of(answer) ==
    IF answer.raises THEN DefaultWarnings
    ELSE LET v == JsonLoads(answer.content)
         IN  IF v.ok /\ v.type = "list" THEN v.items ELSE DefaultWarnings

extract_warnings ==
    /\ Node("extract_warnings", edge("extract_warnings"))
    /\ Called("llm")
    /\ wf' = [wf EXCEPT !.warnings = warnings_of(llm.warn)]
    /\ UNCHANGED <<biobert_text, trimester_risks, model_loaded, writers, now,
                   drugs, rows, served, req, llm, fda_data,
                   ai_analysis, hit, outcome>>
    /\ UNCHANGED pipeline_vars

\* _generate_summary.
summary_of(answer) ==
    IF answer.raises THEN "Consult your healthcare provider about {drug_name} safety."
    ELSE Strip(answer.content)

generate_summary ==
    /\ Node("generate_summary", edge("generate_summary"))
    /\ Called("llm")
    /\ wf' = [wf EXCEPT !.summary = summary_of(llm.sum)]
    /\ UNCHANGED <<biobert_text, trimester_risks, model_loaded, writers, now,
                   drugs, rows, served, req, llm, fda_data,
                   ai_analysis, hit, outcome>>
    /\ UNCHANGED pipeline_vars

\* analyze_fda_data, basic_analyzer.py:193-206: the workflow has reached
\* END and its state becomes the analysis handed back to fetch_and_analyze.
AnalysisOf(state) ==
    [present |-> TRUE,
     pregnancy_safety |-> state.pregnancy_safety,
     breastfeeding_safety |-> state.breastfeeding_safety,
     warnings |-> state.warnings,
     summary |-> state.summary]

AnalyzeFdaDataReturn ==
    /\ pc = "END"
    /\ req.entry = "http"
    /\ ai_analysis' = AnalysisOf(wf)
    /\ pc' = "store"
    /\ UNCHANGED <<biobert_text, trimester_risks, model_loaded, writers, now,
                   drugs, rows, served, req, llm, fda_data, wf, trace,
                   hit, outcome, calls>>
    /\ UNCHANGED pipeline_vars

\* _handle_error, basic_analyzer.py:170-178, and its edge to END.
handle_error ==
    /\ Node("handle_error", edge("handle_error"))
    /\ wf' = [wf EXCEPT
                !.pregnancy_safety = "unknown",
                !.breastfeeding_safety = "unknown",
                !.warnings = DefaultWarnings,
                !.summary = "Unable to analyze {drug_name}. Please consult your healthcare provider."]
    /\ UNCHANGED <<biobert_text, trimester_risks, model_loaded, writers, now,
                   drugs, rows, served, req, llm, fda_data,
                   ai_analysis, hit, outcome, calls>>
    /\ UNCHANGED pipeline_vars

\* What the provider may answer to the four prompts of a workflow run
\* started on its own: each call raises or answers, within or outside
\* what the prompt asks for.
WorkflowScripts ==
    { Script(p, b, w, s) :
        p \in {Raises, Says(" Safe\n"), Says("Probably safe")},
        b \in {Raises, Says("Avoid")},
        w \in {Raises, Says("[w1,w2]"), Says("{a:1}"), Says("prose")},
        s \in {Raises, Says(" Use with care. ")} }

\* A caller invokes DrugSafetyAI.analyze_fda_data(drug_name, fda_data),
\* basic_analyzer.py:180-194.
AnalyzeFdaDataCall ==
    /\ pc = "idle"
    /\ \E n \in {"Tylenol", "", " "}, o \in FdaOutcomes, s \in WorkflowScripts :
          /\ req' = [entry |-> "workflow", drug_name |-> n, enhanced |-> FALSE]
          /\ llm' = s
          /\ fda_data' = search_drug_label(o)
          /\ wf' = InitialState(n, search_drug_label(o))
    /\ pc' = "validate_data"
    /\ UNCHANGED <<biobert_text, trimester_risks, model_loaded, writers, now,
                   drugs, rows, served, trace, ai_analysis, hit,
                   outcome, calls>>
    /\ UNCHANGED pipeline_vars

\* basic_analyzer.py:201-206: the final state of the workflow is handed
\* back to the caller of analyze_fda_data.
AnalyzeFdaDataResult ==
    /\ pc = "END"
    /\ req.entry = "workflow"
    /\ ai_analysis' = AnalysisOf(wf)
    /\ outcome' = [kind |-> "basic_analysis"]
    /\ pc' = "returned"
    /\ UNCHANGED <<biobert_text, trimester_risks, model_loaded, writers, now,
                   drugs, rows, served, req, llm, fda_data, wf, trace,
                   hit, calls>>
    /\ UNCHANGED pipeline_vars

\* ------------------------------------- fetch_and_analyze, drug.py:183-200
\* store_drug_data raises when the database fails and when generic_names
\* is an empty list (IndexError at drug.py:274).
StoreRaises(data, db_ok) == ~db_ok \/ Len(data.generic_names) = 0

\* drug.py:184-190: the study count, then store_drug_data inside the
\* try/except that logs and drops a storage failure.
\* A variant held against store_guarded below: the exception of the store
\* leaves fetch_and_analyze.
store_unguarded(raised) == IF raised THEN "raise" ELSE "respond"

\* The try/except around store_drug_data (drug.py:187-190): the failure
\* is logged and fetch_and_analyze goes on to build its response.
store_guarded(raised) == "respond"

\* A variant held against store_tag below: the row is tagged with the mode
\* of the request.
store_tag_by_mode(enhanced) == data_source_filter(enhanced)

\* drug.py:188: fetch_and_analyze passes data_source='fda_ai' to
\* store_drug_data, whether it was called by analyze (drug.py:124) or by the
\* fallback of fetch_and_analyze_enhanced (drug.py:257-258).
store_tag(enhanced) == "fda_ai"

StoreDrugData ==
    /\ pc = "store"
    /\ \E db_ok \in BOOLEAN :
          LET raised == StoreRaises(fda_data, db_ok)
          IN  /\ IF raised
                 THEN UNCHANGED <<drugs, rows>>
                 ELSE Insert(req.drug_name, fda_data.generic_names[1],
                             BasicRow(req.drug_name, fda_data, ai_analysis,
                                      get_pubmed_count(req.drug_name),
                                      store_tag(req.enhanced), now))
              /\ calls' = [calls EXCEPT
                             !.db_write = @ + 1,
                             !.store_errors = IF raised THEN @ + 1 ELSE @]
              /\ pc' = store_guarded(raised)
    /\ UNCHANGED <<biobert_text, trimester_risks, model_loaded, writers, now,
                   served, req, llm, fda_data, wf, trace, ai_analysis,
                   hit, outcome>>
    /\ UNCHANGED pipeline_vars

\* drug.py:192-200, and 201-206 when building the response raises.
BasicResponse(drug_name, data, analysis, study_count) ==
    DrugSafetyResponse(drug_name, data.pregnancy_category,
                       analysis.pregnancy_safety, analysis.breastfeeding_safety,
                       analysis.summary,
                       IF study_count > 100 THEN "high" ELSE "moderate",
                       analysis.warnings)

Respond ==
    /\ pc = "respond"
    /\ LET r == BasicResponse(req.drug_name, fda_data, ai_analysis,
                              get_pubmed_count(req.drug_name))
       IN  IF ResponseValid(r) THEN Reply(r) ELSE Reply(HTTPException(500))
    /\ UNCHANGED <<biobert_text, trimester_risks, model_loaded, writers, now,
                   drugs, rows, served, req, llm, fda_data, wf, trace,
                   ai_analysis, hit, calls>>
    /\ UNCHANGED pipeline_vars

\* ------------------------------------------------ cancellation of a request
\* The awaits of the route at which its task can be suspended: the lookup
\* (drug.py:130-144), the label fetch (drug.py:168) and the store
\* (drug.py:264-297).  The model calls of the workflow are synchronous
\* (basic_analyzer.py:92, 115, 140, 164, 193) and get_pubmed_count awaits
\* nothing, so the task is never suspended between the fetch and the store.
SuspensionPoints == {"lookup", "fetch", "store"}

\* A variant held against on_cancelled below: the handlers written as
\* except Exception catch the cancellation, as they catch any other error.
on_cancelled_caught(point) ==
    CASE point = "lookup" -> "analyze"
      [] point = "fetch" -> "done"
      [] point = "store" -> "respond"

\* asyncio.CancelledError raised at an await of the route.  It is not an
\* Exception, so none of the handlers of drug.py:99-106, 158-161, 189-190,
\* 201-206, 251-258 and 298-300 catches it: it leaves get_drug_safety.
on_cancelled(point) == "done"

\* The task of the request is cancelled while it is suspended.  At the
\* store, the statements sent before the cancellation have taken effect:
\* none, the one on drugs, or both.
Cancel ==
    /\ req.entry = "http"
    /\ pc \in SuspensionPoints
    /\ outcome' = [kind |-> "cancelled", at |-> pc]
    /\ pc' = on_cancelled(pc)
    /\ IF pc = "store" /\ Len(fda_data.generic_names) > 0
       THEN \E sent \in {"none", "drugs", "both"} :
               LET row == BasicRow(req.drug_name, fda_data, ai_analysis,
                                   get_pubmed_count(req.drug_name),
                                   "fda_ai", now)
               IN  CASE sent = "none" ->
                          UNCHANGED <<drugs, rows, calls>>
                     [] sent = "drugs" ->
                          /\ drugs' = IF req.drug_name \in DOMAIN drugs THEN drugs
                                      ELSE drugs @@ (req.drug_name :> fda_data.generic_names[1])
                          /\ UNCHANGED <<rows, calls>>
                     [] sent = "both" ->
                          /\ Insert(req.drug_name, fda_data.generic_names[1], row)
                          /\ calls' = [calls EXCEPT !.db_write = @ + 1]
       ELSE UNCHANGED <<drugs, rows, calls>>
    /\ UNCHANGED <<biobert_text, trimester_risks, model_loaded, writers, now,
                   served, req, llm, fda_data, wf, trace, ai_analysis, hit>>
    /\ UNCHANGED pipeline_vars

\* ------------------------------------ the synthesis stage, utils.py:23-149
\* The content of a synthesis answer is a sequence of tokens: the code
\* fence of three backquotes (written "<fence>"), the language tag, white
\* space, JSON texts and other prose.
IsSpace(t) == t \in {" ", "\n"}

RECURSIVE LStripSeq(_)
LStripSeq(q) == IF q # << >> /\ IsSpace(Head(q)) THEN LStripSeq(Tail(q)) ELSE q

RECURSIVE RStripSeq(_)
RStripSeq(q) ==
    IF q # << >> /\ IsSpace(q[Len(q)])
    THEN RStripSeq(SubSeq(q, 1, Len(q) - 1)) ELSE q

StripSeq(q) == LStripSeq(RStripSeq(q))

Positions(q, t) == {i \in 1..Len(q) : q[i] = t}
Least(S) == CHOOSE x \in S : \A y \in S : x <= y
Greatest(S) == CHOOSE x \in S : \A y \in S : x >= y
\* q.split(t, 1)[1] and q.rsplit(t, 1)[0], for q that holds t.
AfterFirst(q, t) == SubSeq(q, Least(Positions(q, t)) + 1, Len(q))
BeforeLast(q, t) == SubSeq(q, 1, Greatest(Positions(q, t)) - 1)

\* A variant held against ExtractJson below: the language identifier stays.
ExtractJson_keep_tag(content) ==
    LET json_str == StripSeq(content)
    IN  IF json_str # << >> /\ json_str[1] = "<fence>"
        THEN LET opened == AfterFirst(json_str, "<fence>")
                 closed == IF Positions(opened, "<fence>") # {}
                           THEN BeforeLast(opened, "<fence>") ELSE opened
             IN  StripSeq(closed)
        ELSE json_str

\* utils.py:88-101: json_str, with the markdown fence and the language
\* identifier removed.
ExtractJson(content) ==
    LET json_str == StripSeq(content)
    IN  IF json_str # << >> /\ json_str[1] = "<fence>"
        THEN LET opened == AfterFirst(json_str, "<fence>")
                 closed == IF Positions(opened, "<fence>") # {}
                           THEN BeforeLast(opened, "<fence>") ELSE opened
                 inner == StripSeq(closed)
             IN  IF inner # << >> /\ inner[1] = "json"
                 THEN LStripSeq(Tail(inner)) ELSE inner
        ELSE json_str

\* The JSON texts of the model and the values json.loads gives them.
JsonTexts == {"{ok}", "{off}", "{partial}", "{dicts}", "{tagged}", "[1]"}

JsonValue(text) ==
    CASE text = "{ok}" ->
           [is_object |-> TRUE,
            fields |-> [pregnancy_safety |-> "caution",
                        breastfeeding_safety |-> "safe",
                        warnings |-> TwoWarnings, summary |-> "Use with care.",
                        evidence_quality |-> "high"]]
      [] text = "{off}" ->
           [is_object |-> TRUE,
            fields |-> [pregnancy_safety |-> "probably safe",
                        breastfeeding_safety |-> "safe",
                        warnings |-> SixWarnings, summary |-> "Use with care.",
                        evidence_quality |-> "high"]]
      [] text = "{partial}" ->
           [is_object |-> TRUE,
            fields |-> [pregnancy_safety |-> "avoid",
                        summary |-> "Use with care."]]
      [] text = "{dicts}" ->
           [is_object |-> TRUE,
            fields |-> [pregnancy_safety |-> "caution",
                        breastfeeding_safety |-> "caution",
                        warnings |-> DictWarnings, summary |-> "Use with care.",
                        evidence_quality |-> "low"]]
      [] text = "{tagged}" ->
           [is_object |-> TRUE,
            fields |-> [pregnancy_safety |-> "caution",
                        breastfeeding_safety |-> "caution",
                        warnings |-> TaggedWarnings, summary |-> "Use with care.",
                        evidence_quality |-> "low"]]
      [] text = "[1]" -> [is_object |-> FALSE, fields |-> << >>]

\* json.loads(json_str): one JSON text decodes, anything else (prose, an
\* empty string, text around the JSON) raises JSONDecodeError.
SynthLoads(q) ==
    IF Len(q) = 1 /\ q[1] \in JsonTexts
    THEN [ok |-> TRUE, value |-> JsonValue(q[1])]
    ELSE [ok |-> FALSE, value |-> [is_object |-> FALSE, fields |-> << >>]]

\* dict.get(key, default)
Get(d, key, default) == IF key \in DOMAIN d THEN d[key] ELSE default

\* The ways the provider wraps a JSON text in a markdown code fence: with
\* the language identifier or without it, on lines of its own or on one line.
Fenced(json_text) ==
    { <<"<fence>", "json", "\n", json_text, "\n", "<fence>">>,
      <<"<fence>", "\n", json_text, "\n", "<fence>">>,
      <<"<fence>", "json", json_text, "<fence>">>,
      <<"<fence>", json_text, "<fence>", "\n">> }

\* Answers of the provider to the synthesis prompt.
SynthAnswers ==
    { Raises,
      Says(<<"{ok}">>),
      Says(<<"<fence>", "json", "\n", "{ok}", "\n", "<fence>">>),
      Says(<<"<fence>", "\n", "{ok}", "\n", "<fence>">>),
      Says(<<"<fence>", "json", "{partial}", "<fence>">>),
      Says(<<"<fence>", "{partial}", "<fence>", "\n">>),
      Says(<<"<fence>", "json", "\n", "[1]", "\n", "<fence>">>),
      Says(<<"Here", "{ok}">>),
      Says(<<"prose">>),
      Says(<<" ">>),
      Says(<<"{off}">>),
      Says(<<"{partial}">>),
      Says(<<"{dicts}">>),
      Says(<<"{tagged}">>),
      Says(<<"[1]">>) }

\* utils.py:77-85 and 138-146, the safe default.
SafeDefault(drug_name) ==
    [present |-> TRUE, raised |-> FALSE, drug_name |-> drug_name,
     pregnancy_safety |-> "unknown", breastfeeding_safety |-> "unknown",
     warnings |-> DefaultWarnings,
     summary |-> "Unable to analyze drug. Please consult your healthcare provider.",
     confidence |-> 30, sources_used |-> << >>]

\* utils.py:147-149, the exception is logged and raised again.
SynthesisRaised == [present |-> FALSE, raised |-> TRUE]

\* [s for s in order if s is truthy]
Listed(order, truthy) == SelectSeq(order, LAMBDA x : x \in truthy)

\* utils.py:105-114, the sources that hold data.
SourcesOf(fda, dailymed, pubmed, biobert) ==
    Listed(<<"fda", "dailymed", "pubmed", "biobert">>,
           (IF fda.present THEN {"fda"} ELSE {})
             \cup (IF dailymed.present THEN {"dailymed"} ELSE {})
             \cup (IF pubmed.present THEN {"pubmed"} ELSE {})
             \cup (IF biobert.present THEN {"biobert"} ELSE {}))

\* utils.py:116-121
SourceConfidence(sources_used) ==
    IF Len(sources_used) >= 3 THEN 80
    ELSE IF Len(sources_used) >= 2 THEN 70
    ELSE 50

\* SynthesisOrchestrator.synthesize_all_sources, utils.py:42-149.
synthesize_all_sources(fda, dailymed, pubmed, biobert, answer) ==
    LET drug_name == IF fda.present /\ Len(fda.generic_names) > 0
                     THEN fda.generic_names[1] ELSE "Unknown"
    IN  IF answer.raises THEN SynthesisRaised
        ELSE IF StripSeq(answer.content) = << >> THEN SafeDefault(drug_name)
        ELSE LET decoded == SynthLoads(ExtractJson(answer.content))
                 f == decoded.value.fields
                 sources_used == SourcesOf(fda, dailymed, pubmed, biobert)
             IN  IF ~decoded.ok THEN SafeDefault(drug_name)
                 ELSE IF ~decoded.value.is_object THEN SynthesisRaised
                 ELSE [present |-> TRUE, raised |-> FALSE,
                       drug_name |-> drug_name,
                       pregnancy_safety |-> Get(f, "pregnancy_safety", "unknown"),
                       breastfeeding_safety |-> Get(f, "breastfeeding_safety", "unknown"),
                       warnings |-> Get(f, "warnings", DefaultWarnings),
                       summary |-> Get(f, "summary", "Consult your healthcare provider."),
                       confidence |-> SourceConfidence(sources_used),
                       sources_used |-> sources_used]

\* --------------------------------------- AnalysisUtility, utils.py:308-445
Clamp(x) == IF x < 0 THEN 0 ELSE IF x > 100 THEN 100 ELSE x

needs_pregnancy_info(c) == c.is_pregnant \/ c.trimester # "None"
needs_breastfeeding_info(c) == c.is_breastfeeding

\* A variant held against calculate_confidence below: the DailyMed bonus
\* goes to the calls that have no DailyMed record.
calculate_confidence_inverted(has_fda, has_dailymed, study_count, has_meta_analysis, c) ==
    Clamp( (IF has_fda THEN 30 ELSE 0)
         + (IF has_dailymed THEN 0 ELSE 20)
         + (IF study_count > 100 THEN 30
            ELSE IF study_count > 50 THEN 20
            ELSE IF study_count > 10 THEN 10 ELSE 0)
         + (IF has_meta_analysis THEN 20 ELSE 0) )

\* calculate_confidence, in hundredths.
calculate_confidence(has_fda, has_dailymed, study_count, has_meta_analysis, c) ==
    Clamp( (IF has_fda THEN 30 ELSE 0)
         + (IF has_dailymed THEN 20 ELSE 0)
         + (IF study_count > 100 THEN 30
            ELSE IF study_count > 50 THEN 20
            ELSE IF study_count > 10 THEN 10 ELSE 0)
         + (IF has_meta_analysis THEN 20 ELSE 0)
         - (IF needs_pregnancy_info(c) /\ ~has_fda THEN 10 ELSE 0)
         - (IF needs_breastfeeding_info(c) /\ ~has_dailymed THEN 5 ELSE 0) )

\* The test of _prioritize_warnings, utils.py:381-386.
Relevant(w, is_pregnant, is_breastfeeding) ==
    /\ w.kind = "dict"
    /\ \/ is_pregnant /\ "pregnancy" \in w.context
       \/ is_breastfeeding /\ "breastfeeding" \in w.context

\* _prioritize_warnings: a relevant warning is inserted at the front, any
\* other warning is appended.
RECURSIVE Prioritize(_, _, _, _)
Prioritize(warnings, prioritized, is_pregnant, is_breastfeeding) ==
    IF warnings = << >> THEN prioritized
    ELSE LET w == Head(warnings)
         IN  Prioritize(Tail(warnings),
                        IF Relevant(w, is_pregnant, is_breastfeeding)
                        THEN <<w>> \o prioritized
                        ELSE Append(prioritized, w),
                        is_pregnant, is_breastfeeding)

prioritize_warnings(assessment, is_pregnant, is_breastfeeding) ==
    Prioritize(assessment.warnings, << >>, is_pregnant, is_breastfeeding)

\* contextualize_assessment: a copy of the assessment with the context
\* annotations and the prioritized warnings added.
contextualize_assessment(assessment, c) ==
    [pregnancy_safety |-> assessment.pregnancy_safety,
     breastfeeding_safety |-> assessment.breastfeeding_safety,
     warnings |-> assessment.warnings,
     summary |-> assessment.summary,
     confidence |-> assessment.confidence,
     sources_used |-> assessment.sources_used,
     context |-> c,
     trimester_specific |-> IF c.is_pregnant /\ c.trimester # "None"
                            THEN Lower(c.trimester) ELSE "None",
     breastfeeding_specific |-> c.is_breastfeeding,
     relevant_warnings |->
         prioritize_warnings(assessment, c.is_pregnant, c.is_breastfeeding)]

\* ------------------- the multi-source pipeline, deep_analyzer.py:56-238
\* is_pregnant, is_breastfeeding and trimester of a call: no context, a
\* pregnancy in its first trimester, breastfeeding.
Contexts ==
    { NoContext,
      [is_pregnant |-> TRUE, is_breastfeeding |-> FALSE, trimester |-> "First"],
      [is_pregnant |-> FALSE, is_breastfeeding |-> TRUE, trimester |-> "None"] }

\* DailyMedClient.search_spl: it raises (transport error, malformed payload),
\* returns None (non-200 status, no match) or returns the label sections.
DailymedOutcomes == {"error", "no_data", "record"}
DailymedRecord == [present |-> TRUE, has_milk_levels |-> TRUE]

search_spl(o) ==
    CASE o = "error" -> [raises |-> TRUE, value |-> NoData]
      [] o = "no_data" -> [raises |-> FALSE, value |-> NoData]
      [] o = "record" -> [raises |-> FALSE, value |-> DailymedRecord]

\* PubMedClient.search_pregnancy_breastfeeding_studies: it raises, or it
\* returns the counts: a thin literature or a rich one with a meta-analysis.
PubmedOutcomes == {"error", "few", "many"}

search_pregnancy_breastfeeding_studies(o) ==
    CASE o = "error" ->
           [raises |-> TRUE, value |-> NoData]
      [] o = "few" ->
           [raises |-> FALSE,
            value |-> [present |-> TRUE, total_studies |-> 5,
                       has_meta_analysis |-> FALSE, context |-> "None"]]
      [] o = "many" ->
           [raises |-> FALSE,
            value |-> [present |-> TRUE, total_studies |-> 150,
                       has_meta_analysis |-> TRUE, context |-> "None"]]

\* _safe_dailymed_fetch, deep_analyzer.py:65-71.
safe_dailymed_result(o) ==
    IF search_spl(o).raises THEN NoData ELSE search_spl(o).value

\* _safe_pubmed_fetch, deep_analyzer.py:84-107: the result labelled with
\* the context, or the zero-study dictionary when the search raised.
safe_pubmed_result(o, c) ==
    LET r == search_pregnancy_breastfeeding_studies(o)
    IN  IF r.raises
        THEN [present |-> TRUE, total_studies |-> 0,
              has_meta_analysis |-> FALSE, context |-> "error"]
        ELSE [r.value EXCEPT !.context =
                 IF c.is_pregnant THEN "pregnancy"
                 ELSE IF c.is_breastfeeding THEN "breastfeeding"
                 ELSE "general"]

\* deep_analyzer.py:153-166: the extraction runs when the label carries a
\* pregnancy or a breastfeeding text; otherwise the dictionary stays empty.
extract_structured_data(fda, dailymed) ==
    IF fda.present /\ fda.has_text
    THEN [present |-> TRUE, fda_category |-> "Unknown",
          has_human_data |-> dailymed.present /\ dailymed.has_milk_levels]
    ELSE NoData

\* The safe defaults extract_structured_data returns when anything in it
\* raised (bio_bert_analyzer.py:188-202).
extraction_defaults ==
    [present |-> TRUE, fda_category |-> "None", has_human_data |-> FALSE]

\* deep_analyzer.py:153-166 with an extraction that raised or did not.
extraction_result(fda, dailymed, raised) ==
    IF fda.present /\ fda.has_text /\ raised THEN extraction_defaults
    ELSE extract_structured_data(fda, dailymed)

\* A variant held against after_extraction below: the exception of the
\* extraction leaves fetch_and_analyze.
after_extraction_unguarded(raised) ==
    IF raised THEN "returned" ELSE "synthesize"

\* The extraction is wrapped twice, in extract_structured_data and in
\* fetch_and_analyze (deep_analyzer.py:154-166): the run goes on to the
\* synthesis.
after_extraction(raised) == "synthesize"

\* A variant held against AnalysisResult below: confidence and sources_used
\* are those of the synthesis.
AnalysisResult_from_synthesis(drug_name, fda, dailymed, pubmed, biobert, syn, c) ==
    LET total == IF pubmed.present THEN pubmed.total_studies ELSE 0
    IN  [kind |-> "analysis",
         drug_name |-> drug_name,
         pregnancy_safety |-> syn.pregnancy_safety,
         breastfeeding_safety |-> syn.breastfeeding_safety,
         warnings |-> syn.warnings,
         summary |-> syn.summary,
         confidence |-> syn.confidence,
         sources_used |-> syn.sources_used,
         medical_context |-> c,
         sources_available |-> [fda |-> fda.present,
                                dailymed |-> dailymed.present,
                                pubmed_studies |-> total],
         research_quality |-> [total_studies |-> total],
         safety_assessment |-> contextualize_assessment(syn, c)]

\* deep_analyzer.py:178-226, the result of fetch_and_analyze.
AnalysisResult(drug_name, fda, dailymed, pubmed, biobert, syn, c) ==
    LET total == IF pubmed.present THEN pubmed.total_studies ELSE 0
        meta == IF pubmed.present THEN pubmed.has_meta_analysis ELSE FALSE
    IN  [kind |-> "analysis",
         drug_name |-> drug_name,
         pregnancy_safety |-> syn.pregnancy_safety,
         breastfeeding_safety |-> syn.breastfeeding_safety,
         warnings |-> syn.warnings,
         summary |-> syn.summary,
         confidence |-> calculate_confidence(fda.present, dailymed.present,
                                             total, meta, c),
         sources_used |-> SourcesOf(fda, dailymed, pubmed, biobert),
         medical_context |-> c,
         sources_available |-> [fda |-> fda.present,
                                dailymed |-> dailymed.present,
                                pubmed_studies |-> total],
         research_quality |-> [total_studies |-> total],
         safety_assessment |-> contextualize_assessment(syn, c)]

\* A caller invokes fetch_and_analyze on an EnhancedDrugAnalyzer, whose
\* BioBERTAnalyzer loaded its models or failed to (deep_analyzer.py:39,
\* bio_bert_analyzer.py:13-29).
AnalyzerCall ==
    /\ pc = "idle"
    /\ \E n \in {"Tylenol", "Advil"}, c \in Contexts :
          /\ req' = [entry |-> "analyzer", drug_name |-> n, enhanced |-> TRUE]
          /\ medical_context' = c
    /\ model_loaded' \in BOOLEAN
    /\ pc' = "gather"
    /\ UNCHANGED <<biobert_text, trimester_risks, writers, now,
                   drugs, rows, served, llm, fda_data, wf, trace,
                   ai_analysis, hit, outcome, calls, fetched, failed,
                   dailymed_data, pubmed_data, biobert_extracted,
                   synth_answer, synthesis>>

\* One task of asyncio.gather (deep_analyzer.py:145-150) has completed.
Task(name, raised) ==
    /\ pc = "gather"
    /\ name \notin fetched
    /\ fetched' = fetched \cup {name}
    /\ failed' = IF raised THEN failed \cup {name} ELSE failed
    /\ Called(name)

safe_fda_fetch ==
    /\ \E o \in FdaOutcomes :
          /\ Task("fda", o = "error")
          /\ fda_data' = search_drug_label(o)
    /\ UNCHANGED <<biobert_text, trimester_risks, model_loaded, writers, now,
                   drugs, rows, served, pc, req, llm, wf, trace,
                   ai_analysis, hit, outcome, medical_context, dailymed_data,
                   pubmed_data, biobert_extracted, synth_answer, synthesis>>

safe_dailymed_fetch ==
    /\ \E o \in DailymedOutcomes :
          /\ Task("dailymed", search_spl(o).raises)
          /\ dailymed_data' = safe_dailymed_result(o)
    /\ UNCHANGED <<biobert_text, trimester_risks, model_loaded, writers, now,
                   drugs, rows, served, pc, req, llm, wf, trace,
                   ai_analysis, hit, outcome, medical_context, fda_data,
                   pubmed_data, biobert_extracted, synth_answer, synthesis>>

safe_pubmed_fetch ==
    /\ \E o \in PubmedOutcomes :
          /\ Task("pubmed", search_pregnancy_breastfeeding_studies(o).raises)
          /\ pubmed_data' = safe_pubmed_result(o, medical_context)
    /\ UNCHANGED <<biobert_text, trimester_risks, model_loaded, writers, now,
                   drugs, rows, served, pc, req, llm, wf, trace,
                   ai_analysis, hit, outcome, medical_context, fda_data,
                   dailymed_data, biobert_extracted, synth_answer, synthesis>>

\* A variant held against gather_returns below: the first task to complete
\* ends the wait.
gather_returns_first(done) == done # {}

\* await asyncio.gather(*tasks), deep_analyzer.py:145-150: it returns when
\* each of the three tasks has returned.
gather_returns(done) == done = {"fda", "dailymed", "pubmed"}

\* gather has returned the three results; the entity extraction runs.
ExtractEntities ==
    /\ pc = "gather"
    /\ gather_returns(fetched)
    /\ \E raised \in BOOLEAN :
          LET thrown == fda_data.present /\ fda_data.has_text /\ raised
          IN  /\ biobert_extracted' =
                    extraction_result(fda_data, dailymed_data, raised)
              /\ pc' = after_extraction(thrown)
              /\ outcome' = IF after_extraction(thrown) = "returned"
                            THEN [kind |-> "raised"] ELSE outcome
    /\ UNCHANGED <<biobert_text, trimester_risks, model_loaded, writers, now,
                   drugs, rows, served, req, llm, fda_data, wf, trace,
                   ai_analysis, hit, calls, medical_context, fetched,
                   failed, dailymed_data, pubmed_data, synth_answer, synthesis>>

\* deep_analyzer.py:168-176 and 236-238: the orchestrator answers, or its
\* exception leaves fetch_and_analyze.
Synthesize ==
    /\ pc = "synthesize"
    /\ Called("llm")
    /\ \E a \in SynthAnswers :
          LET syn == synthesize_all_sources(fda_data, dailymed_data,
                                            pubmed_data, biobert_extracted, a)
          IN  /\ synth_answer' = a
              /\ synthesis' = syn
              /\ IF syn.raised
                 THEN /\ outcome' = [kind |-> "raised"]
                      /\ pc' = "returned"
                 ELSE /\ pc' = "build"
                      /\ UNCHANGED outcome
    /\ UNCHANGED <<biobert_text, trimester_risks, model_loaded, writers, now,
                   drugs, rows, served, req, llm, fda_data, wf, trace,
                   ai_analysis, hit, medical_context, fetched, failed,
                   dailymed_data, pubmed_data, biobert_extracted>>

\* A variant held against assessment_passed_in below: contextualized is the
\* dictionary passed in, not a copy of it, and the keys are written to it.
assessment_written_in_place(assessment, c) ==
    [present |-> assessment.present, raised |-> assessment.raised,
     drug_name |-> assessment.drug_name]
       @@ contextualize_assessment(assessment, c)

\* The dictionary passed to contextualize_assessment, after the call:
\* contextualized = dict(safety_assessment) (utils.py:330) is a copy, the
\* keys of lines 333-358 are written to the copy, and _prioritize_warnings
\* builds a new list (utils.py:377-391).
assessment_passed_in(assessment, c) == assessment

\* deep_analyzer.py:178-234
BuildResult ==
    /\ pc = "build"
    /\ outcome' = AnalysisResult(req.drug_name, fda_data, dailymed_data,
                                 pubmed_data, biobert_extracted, synthesis,
                                 medical_context)
    /\ synthesis' = assessment_passed_in(synthesis, medical_context)
    /\ pc' = "returned"
    /\ UNCHANGED <<biobert_text, trimester_risks, model_loaded, writers, now,
                   drugs, rows, served, req, llm, fda_data, wf, trace,
                   ai_analysis, hit, calls, medical_context, fetched, failed,
                   dailymed_data, pubmed_data, biobert_extracted,
                   synth_answer>>

\* ----------------------------- store_enhanced_drug_data, drug.py:303-356
\* The row it inserts; fetched_at and expires_at take the column defaults.
EnhancedRow(drug_name, analysis, pregnancy_category, t) ==
    [present |-> TRUE, drug |-> drug_name,
     data_source |-> "enhanced_multi_source",
     fetched_at |-> t, expires_at |-> t + TTL,
     pregnancy_category |-> pregnancy_category,
     pregnancy_safety |-> analysis.safety_assessment.pregnancy_safety,
     breastfeeding_safety |-> analysis.safety_assessment.breastfeeding_safety,
     ai_summary |-> analysis.safety_assessment.summary,
     key_warnings |-> analysis.safety_assessment.warnings,
     confidence_score |-> analysis.confidence,
     study_count |-> analysis.research_quality.total_studies]

\* Results of fetch_and_analyze handed to store_enhanced_drug_data: one
\* from every source with a well-formed synthesis, one from the label alone
\* with a synthesis outside the taxonomy.
SampleAnalyses ==
    { AnalysisResult("Tylenol", FdaFull, DailymedRecord,
                     safe_pubmed_result("many", NoContext),
                     extract_structured_data(FdaFull, DailymedRecord),
                     synthesize_all_sources(FdaFull, DailymedRecord,
                         safe_pubmed_result("many", NoContext),
                         extract_structured_data(FdaFull, DailymedRecord),
                         Says(<<"{ok}">>)),
                     NoContext),
      AnalysisResult("Tylenol", FdaBare, NoData,
                     safe_pubmed_result("error", NoContext), NoData,
                     synthesize_all_sources(FdaBare, NoData,
                         safe_pubmed_result("error", NoContext), NoData,
                         Says(<<"{off}">>)),
                     NoContext) }

\* A caller stores a comprehensive analysis; a database error is raised
\* again to the caller (drug.py:354-356) and nothing is written.
StoreEnhancedDrugData ==
    /\ pc = "idle"
    /\ served < MaxRequests
    /\ \E a \in SampleAnalyses, db_ok \in BOOLEAN :
          IF db_ok
          THEN Insert(a.drug_name, a.drug_name,
                      EnhancedRow(a.drug_name, a, "None", now))
          ELSE UNCHANGED <<drugs, rows>>
    /\ served' = served + 1
    /\ UNCHANGED <<biobert_text, trimester_risks, model_loaded, writers, now,
                   pc, req, llm, fda_data, wf, trace, ai_analysis, hit,
                   outcome, calls>>
    /\ UNCHANGED pipeline_vars

\* ------------------------------- the seeder, sample-seeder.py:7-47
\* COMMON_DRUGS, of which the model keeps the first two.
COMMON_DRUGS ==
    << [name |-> "Tylenol", generic |-> "acetaminophen", category |-> "B",
        bf_safety |-> "safe"],
       [name |-> "Advil", generic |-> "ibuprofen", category |-> "C",
        bf_safety |-> "moderate"] >>

\* The row seed() inserts for a drug (sample-seeder.py:30-44); key_warnings
\* and study_count are not given and stay empty.
SeedRow(drug, t) ==
    [present |-> TRUE, drug |-> drug.name, data_source |-> "manual",
     fetched_at |-> t, expires_at |-> t + TTL,
     pregnancy_category |-> drug.category,
     pregnancy_safety |-> IF drug.category \in {"A", "B"} THEN "safe"
                          ELSE "caution",
     breastfeeding_safety |-> drug.bf_safety,
     ai_summary |-> "{name} is generally considered {bf_safety} during breastfeeding.",
     key_warnings |-> << >>,
     confidence_score |-> 90,
     study_count |-> 0]

\* seed(): for every drug, INSERT INTO drugs ... ON CONFLICT (name) DO
\* UPDATE SET generic_name = $2, then INSERT INTO drug_safety_data.  The
\* script is run on a database that holds no seeded row yet.
Seed ==
    /\ pc = "idle"
    /\ \A i \in 1..Len(rows) : rows[i].data_source # "manual"
    /\ drugs' = [n \in DOMAIN drugs \cup {COMMON_DRUGS[k].name : k \in 1..Len(COMMON_DRUGS)} |->
                   IF \E k \in 1..Len(COMMON_DRUGS) : COMMON_DRUGS[k].name = n
                   THEN (CHOOSE d \in {COMMON_DRUGS[k] : k \in 1..Len(COMMON_DRUGS)} :
                            d.name = n).generic
                   ELSE drugs[n]]
    /\ rows' = rows \o [k \in 1..Len(COMMON_DRUGS) |-> SeedRow(COMMON_DRUGS[k], now)]
    /\ UNCHANGED <<biobert_text, trimester_risks, model_loaded, writers, now,
                   served, pc, req, llm, fda_data, wf, trace,
                   ai_analysis, hit, outcome, calls>>
    /\ UNCHANGED pipeline_vars

\* --------------------------------------- the route of main.py, 31-75
\* The WHERE clause of main.py:59-61.  AND binds tighter than OR, so the
\* expiry test belongs to the generic-name alternative only.
MainRowMatches(r, drug_name, t) ==
    \/ Lower(r.drug) = Lower(drug_name)
    \/ /\ Lower(drugs[r.drug]) = Lower(drug_name)
       /\ r.expires_at > t

\* main.py:66-73; warnings is not passed and takes its default.
MainRowResponse(r) ==
    DrugSafetyResponse(r.drug, r.pregnancy_category, r.pregnancy_safety,
                       r.breastfeeding_safety, r.ai_summary,
                       IF r.confidence_score > 70 THEN "high" ELSE "moderate",
                       << >>)

\* get_drug_safety of main.py: the row the query returns (LIMIT 1 with no
\* ORDER BY: any matching row) is answered; on a miss the handler returns
\* None; a database error is not caught.
MainGetDrugSafety ==
    /\ pc = "idle"
    /\ served < MaxRequests
    /\ \E n \in Names, db_ok \in BOOLEAN :
          LET found == {i \in 1..Len(rows) : MainRowMatches(rows[i], n, now)}
          IN  /\ req' = [entry |-> "main", drug_name |-> n, enhanced |-> FALSE]
              /\ IF ~db_ok
                 THEN /\ hit' = NoRow
                      /\ outcome' = [kind |-> "raised"]
                 ELSE IF found = {}
                 THEN /\ hit' = Missed
                      /\ outcome' = [kind |-> "null"]
                 ELSE \E i \in found :
                         /\ hit' = Found(rows[i])
                         /\ outcome' = MainRowResponse(rows[i])
    /\ calls' = [calls EXCEPT !.db_read = @ + 1]
    /\ pc' = "done"
    /\ UNCHANGED <<biobert_text, trimester_risks, model_loaded, writers, now,
                   drugs, rows, served, llm, fda_data, wf, trace,
                   ai_analysis>>
    /\ UNCHANGED pipeline_vars

\* ------------------- the cache called on its own, drug.py:128-161, 261-300
\* Rows the table may hold while stores are started.
MaxRows == 2

\* Analyses handed to store_drug_data: two verdicts that differ in every
\* field, and one whose warnings are not strings.
StoredAnalyses ==
    { [present |-> TRUE, pregnancy_safety |-> "safe",
       breastfeeding_safety |-> "safe", warnings |-> TwoWarnings,
       summary |-> "Use with care."],
      [present |-> TRUE, pregnancy_safety |-> "avoid",
       breastfeeding_safety |-> "caution", warnings |-> DefaultWarnings,
       summary |-> "Consult your healthcare provider."],
      [present |-> TRUE, pregnancy_safety |-> "caution",
       breastfeeding_safety |-> "avoid", warnings |-> DictWarnings,
       summary |-> "Use with care."] }

\* A caller invokes store_drug_data(drug_name, fda_data, ai_analysis,
\* study_count) for a label with names; data_source keeps its default.
StoreCall ==
    /\ pc = "idle"
    /\ \E w \in Writers, n \in {"Tylenol", "tylenol"}, a \in StoredAnalyses :
          /\ writers[w] = NoStore
          /\ Len(rows) + Cardinality({v \in Writers : writers[v] # NoStore})
                < MaxRows
          /\ writers' = [writers EXCEPT ![w] =
                            [step |-> "drugs", drug_name |-> n,
                             fda_data |-> FdaFull, ai_analysis |-> a]]
    /\ UNCHANGED <<biobert_text, trimester_risks, model_loaded,
                   now, drugs, rows, served, pc, req, llm, fda_data, wf,
                   trace, ai_analysis, hit, outcome, calls>>
    /\ UNCHANGED pipeline_vars

\* The first statement of store_drug_data, drug.py:266-275: the drug is
\* inserted or found; a database error ends the call (drug.py:298-300).
StoreInsertDrug ==
    /\ pc = "idle"
    /\ \E w \in Writers, db_ok \in BOOLEAN :
          /\ writers[w] # NoStore
          /\ writers[w].step = "drugs"
          /\ IF db_ok
             THEN /\ drugs' = IF writers[w].drug_name \in DOMAIN drugs THEN drugs
                              ELSE drugs @@ (writers[w].drug_name :>
                                               writers[w].fda_data.generic_names[1])
                  /\ writers' = [writers EXCEPT ![w].step = "row"]
             ELSE /\ writers' = [writers EXCEPT ![w] = NoStore]
                  /\ UNCHANGED drugs
    /\ UNCHANGED <<biobert_text, trimester_risks, model_loaded,
                   now, rows, served, pc, req, llm, fda_data, wf, trace,
                   ai_analysis, hit, outcome, calls>>
    /\ UNCHANGED pipeline_vars

\* The second statement, drug.py:278-297: one INSERT writes the whole row
\* of drug_safety_data; a database error ends the call with no row.
StoreInsertRow ==
    /\ pc = "idle"
    /\ \E w \in Writers, db_ok \in BOOLEAN :
          /\ writers[w] # NoStore
          /\ writers[w].step = "row"
          /\ rows' = IF db_ok
                     THEN Append(rows,
                             BasicRow(writers[w].drug_name, writers[w].fda_data,
                                      writers[w].ai_analysis,
                                      get_pubmed_count(writers[w].drug_name),
                                      "fda_ai", now))
                     ELSE rows
          /\ writers' = [writers EXCEPT ![w] = NoStore]
    /\ UNCHANGED <<biobert_text, trimester_risks, model_loaded,
                   now, drugs, served, pc, req, llm, fda_data, wf, trace,
                   ai_analysis, hit, outcome, calls>>
    /\ UNCHANGED pipeline_vars

\* A caller invokes get_from_database(drug_name, enhanced), drug.py:128-161.
\* Its query is one statement: the steps of the stores come before it or
\* after its return.
CacheLookup ==
    /\ pc = "idle"
    /\ Called("db_read")
    /\ \E n \in {"Tylenol", "tylenol", "Advil"}, e \in BOOLEAN, db_ok \in BOOLEAN :
          LET found == IF db_ok THEN LookupRows(n, e, now) ELSE {}
          IN  /\ req' = [entry |-> "cache", drug_name |-> n, enhanced |-> e]
              /\ IF found # {}
                 THEN \E i \in found :
                        IF ResponseValid(RowResponse(rows[i]))
                        THEN /\ hit' = Found(rows[i])
                             /\ outcome' = RowResponse(rows[i])
                        ELSE /\ hit' = Missed
                             /\ outcome' = [kind |-> "null"]
                 ELSE /\ hit' = IF db_ok THEN Missed ELSE NoRow
                      /\ outcome' = [kind |-> "null"]
    /\ pc' = "returned"
    /\ UNCHANGED <<biobert_text, trimester_risks, model_loaded, writers, now,
                   drugs, rows, served, llm, fda_data, wf, trace,
                   ai_analysis>>
    /\ UNCHANGED pipeline_vars

\* ------------------------ BioBERTAnalyzer, bio_bert_analyzer.py:41-141
\* A text is a sequence of words; "." is the full stop.  The words a text
\* of the model is made of: the three trimester phrases, one of them
\* capitalised, a risk keyword, capitalised, and a word that is neither.
MaxWords == 3
Words == {"First trimester", "second trimester", "third trimester",
          "Risk", "use", "."}
Texts == UNION {[1..n -> Words] : n \in 0..MaxWords}

\* text.split('.'), bio_bert_analyzer.py:72.
RECURSIVE split(_)
split(q) ==
    IF Positions(q, ".") = {} THEN <<q>>
    ELSE LET i == Least(Positions(q, "."))
         IN  <<SubSeq(q, 1, i - 1)>> \o split(SubSeq(q, i + 1, Len(q)))

\* keyword in sentence.lower(), for the keywords of the model, which are
\* whole words of it.
Mentions(sentence, keyword) ==
    \E i \in 1..Len(sentence) : Lower(sentence[i]) = keyword

\* bio_bert_analyzer.py:131-134.
risk_keywords == {"risk", "defect", "malformation", "toxicity", "adverse",
                  "contraindicated", "avoid"}

\* _extract_risks_from_sentence, bio_bert_analyzer.py:129-141: the sentence
\* itself, once, when it holds a risk keyword.
extract_risks_from_sentence(sentence) ==
    IF \E k \in risk_keywords : Mentions(sentence, k)
    THEN <<sentence>> ELSE << >>

\* The if/elif chain of bio_bert_analyzer.py:75-83: the list a sentence is
\* added to.
trimester_of(sentence) ==
    IF Mentions(sentence, "first trimester") THEN "first"
    ELSE IF Mentions(sentence, "second trimester") THEN "second"
    ELSE IF Mentions(sentence, "third trimester") THEN "third"
    ELSE "none"

\* The loop of bio_bert_analyzer.py:73-83 over the sentences left to scan.
RECURSIVE scan_sentences(_, _)
scan_sentences(sentences, risks) ==
    IF sentences = << >> THEN risks
    ELSE LET sentence == Head(sentences)
             t == trimester_of(sentence)
         IN  scan_sentences(Tail(sentences),
                 IF t = "none" THEN risks
                 ELSE [risks EXCEPT
                         ![t] = @ \o extract_risks_from_sentence(sentence)])

\* extract_pregnancy_risks, bio_bert_analyzer.py:41-90: its
\* trimester_specific entry.  What the tagging model computed at lines
\* 44-59 is not used, and its failure is caught (lines 60-62).
extract_pregnancy_risks(q) ==
    scan_sentences(split(q),
                   [first |-> << >>, second |-> << >>, third |-> << >>])

\* A caller invokes BioBERTAnalyzer.extract_pregnancy_risks(text).
ExtractPregnancyRisks ==
    /\ pc = "idle"
    /\ \E q \in Texts :
          /\ biobert_text' = q
          /\ trimester_risks' = extract_pregnancy_risks(q)
    /\ UNCHANGED <<model_loaded, writers, now, drugs, rows, served, pc, req,
                   llm, fda_data, wf, trace, ai_analysis, hit, outcome, calls>>
    /\ UNCHANGED pipeline_vars

\* ------------------------------------------------------------ environment
\* The locals of the finished call are gone.
Reset ==
    /\ pc' = "idle"
    /\ req' = NoRequest
    /\ llm' = NominalScript
    /\ fda_data' = NoData
    /\ wf' = InitialState("", NoData)
    /\ trace' = << >>
    /\ ai_analysis' = NoAnalysis
    /\ hit' = NoRow
    /\ outcome' = NoOutcome
    /\ calls' = NoCalls
    /\ medical_context' = NoContext
    /\ fetched' = {}
    /\ failed' = {}
    /\ dailymed_data' = NoData
    /\ pubmed_data' = NoData
    /\ biobert_extracted' = NoData
    /\ synth_answer' = Raises
    /\ synthesis' = NoAnalysis

\* The caller of the route has its answer.
Finish ==
    /\ pc = "done"
    /\ served' = served + 1
    /\ Reset
    /\ UNCHANGED <<biobert_text, trimester_risks, model_loaded, writers, now, drugs, rows>>

\* The caller of an analyzer has its result or its exception.
AnalyzerReturn ==
    /\ pc = "returned"
    /\ Reset
    /\ UNCHANGED <<biobert_text, trimester_risks, model_loaded, writers, now,
                   drugs, rows, served>>

\* Time passes between requests.
Tick ==
    /\ pc = "idle"
    /\ now < MaxTime
    /\ now' = now + 1
    /\ UNCHANGED <<biobert_text, trimester_risks, model_loaded,
                   writers, drugs, rows, served, pc, req, llm, fda_data, wf, trace,
                   ai_analysis, hit, outcome, calls>>
    /\ UNCHANGED pipeline_vars

Next ==
    \/ Receive
    \/ ValidateName
    \/ GetFromDatabase
    \/ Analyze
    \/ FetchAndAnalyzeEnhanced
    \/ FdaFetch
    \/ validate_data
    \/ analyze_pregnancy
    \/ analyze_breastfeeding
    \/ extract_warnings
    \/ generate_summary
    \/ AnalyzeFdaDataReturn
    \/ StoreDrugData
    \/ Respond
    \/ StoreEnhancedDrugData
    \/ Finish
    \/ Tick

\* The route with its cache.
Spec == Init /\ [][Next]_vars

NextCancel ==
    \/ Receive
    \/ ValidateName
    \/ GetFromDatabase
    \/ Analyze
    \/ FetchAndAnalyzeEnhanced
    \/ FdaFetch
    \/ validate_data
    \/ analyze_pregnancy
    \/ analyze_breastfeeding
    \/ extract_warnings
    \/ generate_summary
    \/ AnalyzeFdaDataReturn
    \/ StoreDrugData
    \/ Respond
    \/ Cancel
    \/ Finish
    \/ Tick

\* The route with its cache, its requests open to cancellation.
SpecCancel == Init /\ [][NextCancel]_vars

NextCache ==
    \/ StoreCall
    \/ StoreInsertDrug
    \/ StoreInsertRow
    \/ CacheLookup
    \/ AnalyzerReturn
    \/ Tick

\* store_drug_data and get_from_database, called on their own by several
\* callers at a time.
SpecCache == Init /\ [][NextCache]_vars

NextAnalyzer ==
    \/ AnalyzerCall
    \/ safe_fda_fetch
    \/ safe_dailymed_fetch
    \/ safe_pubmed_fetch
    \/ ExtractEntities
    \/ Synthesize
    \/ BuildResult
    \/ AnalyzerReturn

\* EnhancedDrugAnalyzer.fetch_and_analyze, called on its own.
SpecAnalyzer == Init /\ [][NextAnalyzer]_vars

NextWorkflow ==
    \/ AnalyzeFdaDataCall
    \/ validate_data
    \/ handle_error
    \/ analyze_pregnancy
    \/ analyze_breastfeeding
    \/ extract_warnings
    \/ generate_summary
    \/ AnalyzeFdaDataResult
    \/ AnalyzerReturn

\* DrugSafetyAI.analyze_fda_data, called on its own.
SpecWorkflow == Init /\ [][NextWorkflow]_vars

\* The same with the run going on: workflow.invoke (basic_analyzer.py:193)
\* executes the graph synchronously, node after node, and every call of the
\* provider returns or raises, so a step that can be taken is taken.
SpecWorkflowLive == SpecWorkflow /\ WF_vars(NextWorkflow)

NextBioBERT == ExtractPregnancyRisks

\* BioBERTAnalyzer.extract_pregnancy_risks, called on its own.
SpecBioBERT == Init /\ [][NextBioBERT]_vars

NextSeeded ==
    \/ Seed
    \/ MainGetDrugSafety
    \/ Receive
    \/ ValidateName
    \/ GetFromDatabase
    \/ Analyze
    \/ FetchAndAnalyzeEnhanced
    \/ FdaFetch
    \/ validate_data
    \/ analyze_pregnancy
    \/ analyze_breastfeeding
    \/ extract_warnings
    \/ generate_summary
    \/ AnalyzeFdaDataReturn
    \/ StoreDrugData
    \/ Respond
    \/ Finish
    \/ Tick

\* The two routes on a database the seeder has filled.
SpecSeeded == Init /\ [][NextSeeded]_vars

\* =============================================================== properties
\* Names of a request through the route that is over.
RouteDone == pc = "done" /\ req.entry = "http"
\* The rows of the cache for name and mode, whatever their age.
RowsFor(drug_name, enhanced) ==
    {i \in 1..Len(rows) :
        /\ Lower(rows[i].drug) = Lower(drug_name)
        /\ rows[i].data_source = (IF enhanced THEN "enhanced_multi_source"
                                  ELSE "fda_ai")}

\* C1: the pregnancy_safety and breastfeeding_safety of every verdict the
\* route returns, and of every row written to the cache, are in
\* {safe, caution, avoid, unknown}.
C1_SafetyValuesInTaxonomy ==
    /\ (RouteDone /\ outcome.kind = "verdict") =>
          /\ outcome.pregnancy_safety \in valid_safety_values
          /\ outcome.breastfeeding_safety \in valid_safety_values
    /\ \A i \in 1..Len(rows) :
          /\ rows[i].pregnancy_safety \in valid_safety_values
          /\ rows[i].breastfeeding_safety \in valid_safety_values

\* C2: a lookup returns only a row whose tag is the tag of the mode asked
\* for: 'enhanced_multi_source' in comprehensive mode, 'fda_ai' in basic
\* mode; the row it returned is what the caller receives.
C2_ModeIsolation ==
    hit.present =>
       /\ hit.row.data_source = (IF req.enhanced THEN "enhanced_multi_source"
                                 ELSE "fda_ai")
       /\ outcome = RowResponse(hit.row)

\* A comprehensive-mode lookup ran and missed while a fresh row stored in
\* basic mode for the same name was in the cache.
C2_Witness ==
    /\ req.enhanced
    /\ hit = Missed
    /\ \E i \in 1..Len(rows) :
          /\ rows[i].data_source = "fda_ai"
          /\ Lower(rows[i].drug) = Lower(req.drug_name)
          /\ rows[i].expires_at > now

\* C3: a lookup never returns a row whose expires_at is not later than
\* the current time, and a request whose lookup ran and found nothing to
\* serve fetches the regulatory label anew unless no analyzer could be built.
C3_StaleNeverServed ==
    /\ hit.present => hit.row.expires_at > now
    /\ (RouteDone /\ hit = Missed) =>
          calls.fda = 1 \/ outcome = HTTPException(503)

\* Every row for the name and mode of the request is stale, the lookup
\* missed and the pipeline has run again.
C3_Witness ==
    /\ RouteDone
    /\ hit = Missed
    /\ calls.fda = 1
    /\ outcome.kind = "verdict"
    /\ RowsFor(req.drug_name, req.enhanced) # {}
    /\ \E i \in RowsFor(req.drug_name, req.enhanced) : rows[i].expires_at <= now

\* C4: a request whose name is empty or only white space ends with HTTP
\* 400 and makes no provider fetch, no synthesis call and no database access.
C4_BlankNameRejected ==
    (req.entry = "http" /\ req.drug_name \in {"", " "}) =>
       /\ calls = NoCalls
       /\ pc \in {"validate", "done"}
       /\ pc = "done" => outcome = HTTPException(400)

\* A whitespace-only name has been answered with HTTP 400.
C4_Witness ==
    /\ RouteDone
    /\ req.drug_name = " "
    /\ outcome = HTTPException(400)
    /\ calls.fda = 0 /\ calls.llm = 0

\* C5: every request through the route ends with a valid verdict or with
\* HTTP 400, never with another error outcome.
C5_OnlyVerdictOrInvalidInput ==
    RouteDone =>
       \/ outcome.kind = "verdict" /\ ResponseValid(outcome)
       \/ outcome = HTTPException(400)

\* C6: a comprehensive-mode request during which every call of the
\* synthesis provider raised ends with a verdict whose confidence is capped
\* (it is not "high").
C6_DegradedFallback ==
    (RouteDone /\ req.enhanced /\ llm = DownScript /\ calls.llm > 0) =>
       /\ outcome.kind = "verdict"
       /\ outcome.confidence # "high"

\* C7: once the fan-out is over, the result of every provider whose fetch
\* failed is absent, and no other provider's result is.
C7_FailedFetchIsAbsent ==
    pc \in {"synthesize", "build", "returned"} =>
       /\ fetched = {"fda", "dailymed", "pubmed"}
       /\ "fda" \in failed => ~fda_data.present
       /\ "dailymed" \in failed => ~dailymed_data.present
       /\ "pubmed" \in failed => ~pubmed_data.present

\* C8: when the text the synthesis provider returned does not decode as
\* JSON, the result of fetch_and_analyze is the fixed default: unknown,
\* unknown, the single default warning, confidence 0.3, no sources.
C8_MalformedJsonGivesDefault ==
    (outcome.kind = "analysis" /\ ~synth_answer.raises
       /\ ~SynthLoads(ExtractJson(synth_answer.content)).ok) =>
       /\ outcome.pregnancy_safety = "unknown"
       /\ outcome.breastfeeding_safety = "unknown"
       /\ outcome.warnings = DefaultWarnings
       /\ outcome.confidence = 30
       /\ outcome.sources_used = << >>

\* C9: when the three fetches all failed or returned nothing, the result
\* of fetch_and_analyze is unknown, unknown, confidence 0.0, no sources.
C9_AllAbsentGivesUnknown ==
    (outcome.kind = "analysis" /\ ~fda_data.present /\ ~dailymed_data.present
       /\ "pubmed" \in failed) =>
       /\ outcome.pregnancy_safety = "unknown"
       /\ outcome.breastfeeding_safety = "unknown"
       /\ outcome.confidence = 0
       /\ outcome.sources_used = << >>

\* C10: when the regulatory-label fetch succeeded and the two other
\* fetches failed, sources_used is the regulatory label alone and the
\* synthesis confidence is the base tier 0.5.
C10_LabelOnlyBaseTier ==
    (outcome.kind = "analysis" /\ fda_data.present
       /\ "dailymed" \in failed /\ "pubmed" \in failed) =>
       /\ outcome.sources_used = <<"fda">>
       /\ synthesis.sources_used # << >> => synthesis.confidence = 50

\* C11: the warnings of every verdict the route returns number at most 5.
C11_AtMostFiveWarnings ==
    (RouteDone /\ outcome.kind = "verdict") => Len(outcome.warnings) <= 5

\* The result fetch_and_analyze would build from other outcomes of the label
\* and DailyMed fetches, the literature, the context and the synthesis
\* answer being those of the current call.
ResultWith(fo, do) ==
    LET fda == search_drug_label(fo)
        dailymed == safe_dailymed_result(do)
        biobert == extract_structured_data(fda, dailymed)
    IN  AnalysisResult(req.drug_name, fda, dailymed, pubmed_data, biobert,
                       synthesize_all_sources(fda, dailymed, pubmed_data,
                                              biobert, synth_answer),
                       medical_context)
\* at most one source, two sources, three or more
Tier(sources_used) ==
    IF Len(sources_used) >= 3 THEN 3 ELSE IF Len(sources_used) = 2 THEN 2 ELSE 1

\* C12: the confidence of every result, and the confidence of its
\* synthesis, lie in [0.0, 1.0]; and a result built from the same
\* literature, context and synthesis answer with sources of a lower tier
\* (at most one, two, three or more) has no higher confidence.
C12_ConfidenceBoundedMonotone ==
    outcome.kind = "analysis" =>
       /\ outcome.confidence \in 0..100
       /\ outcome.safety_assessment.confidence \in 0..100
       /\ \A fo \in FdaOutcomes, do \in DailymedOutcomes :
             LET other == ResultWith(fo, do)
             IN  Tier(other.sources_used) < Tier(outcome.sources_used) =>
                    /\ other.confidence <= outcome.confidence
                    /\ other.safety_assessment.confidence
                          <= outcome.safety_assessment.confidence

\* A result from four sources with confidence 1.0 and synthesis confidence
\* 0.8, above what the literature alone would give.
C12_Witness ==
    /\ outcome.kind = "analysis"
    /\ Len(outcome.sources_used) = 4
    /\ outcome.confidence = 100
    /\ outcome.safety_assessment.confidence = 80
    /\ ResultWith("error", "error").confidence < 100
    /\ ResultWith("error", "error").safety_assessment.confidence = 50

\* C13: a request whose store_drug_data failed goes on to build its
\* response, and ends with the verdict that fetch_and_analyze builds from
\* the label and the analysis, in basic and in comprehensive mode.
C13_StoreFailureSwallowed ==
    (req.entry = "http" /\ calls.store_errors > 0) =>
       /\ pc \in {"respond", "done"}
       /\ (pc = "done" /\ ResponseValid(BasicResponse(req.drug_name, fda_data,
                              ai_analysis, get_pubmed_count(req.drug_name)))) =>
             outcome = BasicResponse(req.drug_name, fda_data, ai_analysis,
                                     get_pubmed_count(req.drug_name))

\* A comprehensive-mode request whose store failed has its verdict, and
\* the cache holds nothing for it.
C13_Witness ==
    /\ RouteDone
    /\ req.enhanced
    /\ calls.store_errors = 1
    /\ outcome.kind = "verdict"
    /\ outcome.pregnancy_safety = "safe"
    /\ rows = << >>

\* The two paths of the graph, and the node or END that follows a trace.
HappyPath == <<"validate_data", "analyze_pregnancy", "analyze_breastfeeding",
               "extract_warnings", "generate_summary">>
ErrorPath == <<"validate_data", "handle_error">>
IsPrefix(q, path) == Len(q) <= Len(path) /\ q = SubSeq(path, 1, Len(q))
After(q, path) == IF Len(q) < Len(path) THEN path[Len(q) + 1] ELSE "END"

\* C14: a run of the workflow on a non-empty name and a label walks
\* validate_data, analyze_pregnancy, analyze_breastfeeding, extract_warnings,
\* generate_summary, END; a run on an empty name or without a label walks
\* validate_data, handle_error, END; the run stands at the node that
\* follows the nodes it has executed.
C14_WorkflowOrder ==
    req.entry = "workflow" =>
       LET path == IF wf.drug_name = "" \/ ~wf.fda_data.present
                   THEN ErrorPath ELSE HappyPath
       IN  /\ IsPrefix(trace, path)
           /\ pc \in {After(trace, path), "returned"}
           /\ pc = "returned" => trace = path

\* Both paths have been walked to END: this run took the error path for a
\* missing label.
C14_Witness ==
    /\ req.entry = "workflow"
    /\ pc = "returned"
    /\ wf.drug_name = "Tylenol"
    /\ ~wf.fda_data.present
    /\ trace = ErrorPath

\* C15: in a run that passed validation all four analysis nodes call the
\* provider; the field of a node whose call raised is its default (unknown,
\* the single default warning, the generic advisory) and the field of a
\* node whose call answered is made from that answer alone.
C15_FailureStaysLocal ==
    (req.entry = "workflow" /\ pc = "returned" /\ trace = HappyPath) =>
       /\ calls.llm = 4
       /\ ai_analysis.pregnancy_safety =
             (IF llm.preg.raises THEN "unknown"
              ELSE Lower(Strip(llm.preg.content)))
       /\ ai_analysis.breastfeeding_safety =
             (IF llm.bf.raises THEN "unknown"
              ELSE Lower(Strip(llm.bf.content)))
       /\ llm.warn.raises => ai_analysis.warnings = DefaultWarnings
       /\ llm.warn = Says("[w1,w2]") => ai_analysis.warnings = TwoWarnings
       /\ ai_analysis.summary =
             (IF llm.sum.raises
              THEN "Consult your healthcare provider about {drug_name} safety."
              ELSE Strip(llm.sum.content))

\* The pregnancy call and the summary call raised, the two calls between
\* them answered: two fields are defaults, two are results.
C15_Witness ==
    /\ req.entry = "workflow"
    /\ pc = "returned"
    /\ llm.preg.raises /\ ~llm.bf.raises /\ ~llm.warn.raises /\ llm.sum.raises
    /\ ai_analysis.pregnancy_safety = "unknown"
    /\ ai_analysis.breastfeeding_safety = "avoid"
    /\ ai_analysis.warnings = TwoWarnings
    /\ ai_analysis.summary = "Consult your healthcare provider about {drug_name} safety."

\* C16: a finished request for 'tylenol' whose lookup ran while a fresh
\* seeded row for Tylenol was in the database is answered with the seeded
\* name 'Tylenol' and the seeded pregnancy category 'B'.
C16_SeededCaseVariant ==
    (pc = "done" /\ req.drug_name = "tylenol" /\ hit.queried
       /\ \E i \in 1..Len(rows) :
             /\ rows[i] = SeedRow(COMMON_DRUGS[1], rows[i].fetched_at)
             /\ rows[i].expires_at > now) =>
       /\ outcome.kind = "verdict"
       /\ outcome.drug_name = "Tylenol"
       /\ outcome.pregnancy_category = "B"

\* The evidence slots a finished run of the pipeline obtained: a provider
\* whose fetch returned data without raising, and the extraction when it ran.
PresentSlots ==
    (IF fda_data.present /\ "fda" \notin failed THEN {"fda"} ELSE {})
      \cup (IF dailymed_data.present /\ "dailymed" \notin failed
            THEN {"dailymed"} ELSE {})
      \cup (IF pubmed_data.present /\ "pubmed" \notin failed
            THEN {"pubmed"} ELSE {})
      \cup (IF biobert_extracted.present THEN {"biobert"} ELSE {})

\* C17: the sources_used of a result of fetch_and_analyze lists exactly
\* the evidence slots that were obtained for the request: no provider whose
\* fetch failed is listed and no obtained slot is left out.
C17_SourcesUsedArePresentSlots ==
    (req.entry = "analyzer" /\ pc = "returned" /\ outcome.kind = "analysis") =>
       {outcome.sources_used[i] : i \in 1..Len(outcome.sources_used)}
          = PresentSlots

\* The synthesis answer of the run decoded to a JSON object.
SynthesisParsed ==
    /\ ~synth_answer.raises
    /\ StripSeq(synth_answer.content) # << >>
    /\ SynthLoads(ExtractJson(synth_answer.content)).ok
    /\ SynthLoads(ExtractJson(synth_answer.content)).value.is_object

\* The confidence tier, in hundredths, for a number of evidence slots.
TierOfCount(n) == IF n >= 3 THEN 80 ELSE IF n = 2 THEN 70 ELSE 50

\* C18: a result of fetch_and_analyze whose synthesis answer parsed carries
\* the confidence 0.5 with at most one evidence slot obtained, 0.7 with
\* exactly two and 0.8 with three or more.
C18_ConfidenceBySlotCount ==
    (req.entry = "analyzer" /\ pc = "returned" /\ outcome.kind = "analysis"
       /\ SynthesisParsed) =>
       outcome.confidence = TierOfCount(Cardinality(PresentSlots))

\* C19: a finished request in comprehensive mode that missed the cache and
\* was answered with a verdict called each of the three provider clients
\* once and the language model once, and the verdict it stored is a row
\* tagged 'enhanced_multi_source'.
C19_ComprehensiveMissRunsPipeline ==
    (RouteDone /\ req.enhanced /\ hit.queried /\ ~hit.present
       /\ outcome.kind = "verdict") =>
       /\ calls.fda = 1 /\ calls.dailymed = 1 /\ calls.pubmed = 1
       /\ calls.llm = 1
       /\ (calls.db_write = 1 /\ calls.store_errors = 0) =>
             RowsFor(req.drug_name, TRUE) # {}

\* C20: the relevant_warnings of a result are its warnings with those that
\* match the situation of the caller first, each of the two groups in the
\* order the warnings had.
C20_StablePartition ==
    (req.entry = "analyzer" /\ pc = "returned" /\ outcome.kind = "analysis") =>
       LET a == outcome.safety_assessment
           c == outcome.medical_context
           matches(w) == Relevant(w, c.is_pregnant, c.is_breastfeeding)
       IN  a.relevant_warnings =
              SelectSeq(a.warnings, matches)
                 \o SelectSeq(a.warnings, LAMBDA w : ~matches(w))

\* C21: during a request to the route no provider is fetched more than
\* once, the fallback of a comprehensive request included, and a label
\* fetch that failed ends the request without another fetch.
C21_NoProviderFetchedTwice ==
    req.entry = "http" =>
       /\ calls.fda <= 1 /\ calls.dailymed <= 1 /\ calls.pubmed <= 1
       /\ (calls.fda = 1 /\ ~fda_data.present) => pc = "done"

\* A comprehensive request fell back to the basic analysis and was answered
\* from the one label fetch of the request.
C21_Witness ==
    /\ RouteDone /\ req.enhanced /\ hit.queried /\ ~hit.present
    /\ calls.fda = 1 /\ fda_data.present
    /\ outcome.kind = "verdict"

\* The keys the synthesis prompt requires (utils.py:57) and whether a
\* decoded answer breaks that contract.
RequiredKeys ==
    {"pregnancy_safety", "breastfeeding_safety", "warnings", "summary",
     "evidence_quality"}

BreaksContract(v) ==
    \/ ~v.is_object
    \/ RequiredKeys \ DOMAIN v.fields # {}
    \/ \E k \in {"pregnancy_safety", "breastfeeding_safety"} \cap DOMAIN v.fields :
          v.fields[k] \notin valid_safety_values

\* The synthesis answer of the run decoded as JSON.
SynthesisDecoded ==
    /\ ~synth_answer.raises
    /\ StripSeq(synth_answer.content) # << >>
    /\ SynthLoads(ExtractJson(synth_answer.content)).ok

\* C22: when the synthesis answer decodes as JSON but is not an object,
\* lacks a required key or holds a safety value outside the taxonomy, the
\* synthesis stage returns the fixed safe default and raises nothing.
C22_ContractViolationGivesDefault ==
    (req.entry = "analyzer" /\ pc \in {"build", "returned"} /\ SynthesisDecoded
       /\ BreaksContract(SynthLoads(ExtractJson(synth_answer.content)).value)) =>
       /\ ~synthesis.raised
       /\ synthesis = SafeDefault(synthesis.drug_name)

C24_LookupFailureIsMiss ==
    (pc = "done" /\ req.entry \in {"http", "main"}
       /\ calls.db_read = 1 /\ ~hit.queried) =>
       \/ outcome.kind = "verdict"
       \/ outcome.kind = "http" /\ outcome.status_code \in {500, 503}

\* C27: the row the lookup of main.py returned has not expired.
C27_MainNeverServesExpired ==
    (req.entry = "main" /\ pc = "done" /\ hit.present) =>
       hit.row.expires_at > now

\* C29: in a run of fetch_and_analyze the synthesis is called only when
\* each of the three provider fetches has returned or failed, and the
\* synthesis it produced is the one of the results of the three fetches.
C29_SynthesisAfterAllFetches ==
    req.entry = "analyzer" =>
       /\ (calls.llm > 0 \/ pc \in {"synthesize", "build", "returned"}) =>
             /\ fetched = {"fda", "dailymed", "pubmed"}
             /\ calls.fda = 1 /\ calls.dailymed = 1 /\ calls.pubmed = 1
       /\ calls.llm = 1 =>
             synthesis = synthesize_all_sources(fda_data, dailymed_data,
                            pubmed_data,
                            extract_structured_data(fda_data, dailymed_data),
                            synth_answer)

\* The synthesis was called after a run in which the label fetch returned
\* data and the two other fetches failed.
C29_Witness ==
    /\ req.entry = "analyzer" /\ pc = "build" /\ calls.llm = 1
    /\ fda_data.present /\ ~dailymed_data.present
    /\ failed = {"dailymed", "pubmed"}
    /\ synthesis.present

\* C30: the confidence and the sources_used of a result of fetch_and_analyze
\* are those of the result the same evidence and medical context give with
\* any other answer of the synthesis provider that yields a result, an
\* answer that fails to parse included.
C30_VerdictIndependentOfAnswer ==
    (req.entry = "analyzer" /\ pc = "returned" /\ outcome.kind = "analysis") =>
       \A a \in SynthAnswers :
          LET syn == synthesize_all_sources(fda_data, dailymed_data,
                        pubmed_data, biobert_extracted, a)
              other == AnalysisResult(req.drug_name, fda_data, dailymed_data,
                          pubmed_data, biobert_extracted, syn, medical_context)
          IN  ~syn.raised =>
                 /\ other.confidence = outcome.confidence
                 /\ other.sources_used = outcome.sources_used

\* A result built on an answer that did not parse: the synthesis is the
\* safe default, the result carries the score and the sources of the
\* evidence.
C30_Witness ==
    /\ req.entry = "analyzer" /\ pc = "returned" /\ outcome.kind = "analysis"
    /\ synth_answer = Says(<<"prose">>)
    /\ synthesis.confidence = 30 /\ synthesis.sources_used = << >>
    /\ outcome.confidence = 100
    /\ outcome.sources_used = <<"fda", "dailymed", "pubmed", "biobert">>

\* C28: a request cancelled while it waited for the lookup or for the label
\* fetch is over at once: it has written no cache entry and holds no
\* evidence and no analysis.
C28_CancelledWritesNothing ==
    (req.entry = "http" /\ outcome.kind = "cancelled"
       /\ outcome.at \in {"lookup", "fetch"}) =>
       /\ pc = "done"
       /\ calls.db_write = 0 /\ calls.llm = 0
       /\ ~fda_data.present /\ ~ai_analysis.present

\* A request was cancelled during its label fetch, after a lookup that
\* found nothing.
C28_Witness ==
    /\ RouteDone /\ outcome = [kind |-> "cancelled", at |-> "fetch"]
    /\ hit = Missed /\ calls.db_read = 1
    /\ calls.db_write = 0 /\ ~fda_data.present

\* The rows stored for a case variant of the name under the tag of the
\* mode that have not expired.
FreshRowsFor(drug_name, enhanced) ==
    {i \in RowsFor(drug_name, enhanced) : rows[i].expires_at > now}

LastWritten(drug_name, enhanced) ==
    LET S == {i \in 1..Len(rows) :
                 RowMatches(rows[i], drug_name, enhanced, now)}
    IN  CHOOSE i \in S : \A j \in S : j <= i

\* C26: the row a lookup returned is, whole, the row of one store, and of
\* the rows it matches it is the one written last.
C26_LastWriterWins ==
    (req.entry = "cache" /\ pc = "returned" /\ hit.present) =>
       /\ \E n \in {"Tylenol", "tylenol"}, a \in StoredAnalyses :
             hit.row = BasicRow(n, FdaFull, a, get_pubmed_count(n), "fda_ai",
                                hit.row.fetched_at)
       /\ hit.row = rows[LastWritten(req.drug_name, req.enhanced)]

\* ------------------------------------------- fresh answer and cached answer
\* drug.py:231-240, the label fetch_and_analyze_enhanced gives a numeric
\* confidence (in hundredths).
confidence_str(confidence_value) ==
    IF confidence_value >= 80 THEN "high"
    ELSE IF confidence_value >= 50 THEN "moderate"
    ELSE "low"

\* The caller-visible fields the computation that stored row r returned:
\* drug.py:192-200 for a row of store_drug_data, drug.py:242-250 for a row
\* of store_enhanced_drug_data.
FreshFieldsOf(r) ==
    [pregnancy_category |-> r.pregnancy_category,
     pregnancy_safety |-> r.pregnancy_safety,
     breastfeeding_safety |-> r.breastfeeding_safety,
     warnings |-> r.key_warnings,
     confidence |-> IF r.data_source = "enhanced_multi_source"
                    THEN confidence_str(r.confidence_score)
                    ELSE IF r.study_count > 100 THEN "high" ELSE "moderate"]

FieldsOf(o) ==
    [pregnancy_category |-> o.pregnancy_category,
     pregnancy_safety |-> o.pregnancy_safety,
     breastfeeding_safety |-> o.breastfeeding_safety,
     warnings |-> o.warnings,
     confidence |-> o.confidence]

C31_BasicCachedEqualsFresh ==
    (RouteDone /\ hit.present /\ ~req.enhanced) =>
        FieldsOf(outcome) = FreshFieldsOf(hit.row)

\* C32: a row written while a comprehensive request is served (the request
\* fell back to fetch_and_analyze) is tagged 'fda_ai', never
\* 'enhanced_multi_source', and a comprehensive request is answered from the
\* cache only by a row tagged 'enhanced_multi_source'.
C32_FallbackStoredAsBasic ==
    [][ /\ (req.entry = "http" /\ req.enhanced /\ rows' # rows) =>
              /\ Len(rows') = Len(rows) + 1
              /\ rows'[Len(rows')].data_source = "fda_ai"
        /\ (req'.entry = "http" /\ req'.enhanced /\ hit'.present) =>
              hit'.row.data_source = "enhanced_multi_source" ]_vars

\* A comprehensive request fell back, analysed the label and stored its row.
C32_Witness ==
    /\ RouteDone /\ req.enhanced /\ ~hit.present
    /\ outcome.kind = "verdict"
    /\ calls.db_write = 1 /\ calls.store_errors = 0
    /\ Len(rows) > 0
    /\ rows[Len(rows)].drug = req.drug_name
    /\ rows[Len(rows)].data_source = "fda_ai"
    /\ rows[Len(rows)].fetched_at = now

\* C33: a basic-mode request whose regulatory-label fetch returned nothing
\* is over at once with pregnancy_safety and breastfeeding_safety 'unknown'
\* and confidence 'low'; the synthesis provider was not called and nothing
\* was written to the cache.
C33_NoLabelNoAnalysis ==
    (req.entry = "http" /\ ~req.enhanced /\ calls.fda = 1
                        /\ ~fda_data.present) =>
        /\ pc = "done"
        /\ outcome = DrugSafetyResponse(
               req.drug_name, "Unknown", "unknown", "unknown",
               "No FDA data available. Consult healthcare provider.",
               "low", << >>)
        /\ calls.llm = 0
        /\ calls.db_write = 0

\* A basic-mode request missed the cache, fetched the label, found nothing
\* and has been answered.
C33_Witness ==
    /\ RouteDone /\ ~req.enhanced
    /\ hit = Missed
    /\ calls.fda = 1 /\ ~fda_data.present
    /\ outcome.kind = "verdict" /\ outcome.confidence = "low"

\* The field a node of the workflow writes.
FieldOfNode(n) ==
    CASE n = "analyze_pregnancy" -> "pregnancy_safety"
      [] n = "analyze_breastfeeding" -> "breastfeeding_safety"
      [] n = "extract_warnings" -> "warnings"
      [] n = "generate_summary" -> "summary"
      [] OTHER -> "none"

\* C34: in every step of the workflow, drug_name and fda_data of the state
\* record stay as they are, and each of the four analysis nodes leaves every
\* field but its own unchanged: analyze_pregnancy writes pregnancy_safety,
\* analyze_breastfeeding breastfeeding_safety, extract_warnings warnings,
\* generate_summary summary.
C34_NodeWritesOwnField ==
    [][ Len(trace') = Len(trace) + 1 =>
          LET f == FieldOfNode(trace'[Len(trace')])
          IN  /\ wf'.drug_name = wf.drug_name
              /\ wf'.fda_data = wf.fda_data
              /\ f # "none" =>
                    \A g \in DOMAIN wf : g # f => wf'[g] = wf[g] ]_vars

\* A run in which the first synthesis call answered, the second failed and
\* all four analysis nodes have run.
C34_Witness ==
    /\ req.entry = "workflow" /\ pc = "END"
    /\ trace = <<"validate_data", "analyze_pregnancy", "analyze_breastfeeding",
                 "extract_warnings", "generate_summary">>
    /\ llm.bf.raises /\ ~llm.preg.raises
    /\ wf.pregnancy_safety = "safe"
    /\ wf.breastfeeding_safety = "unknown"

\* C35: every run of the workflow reaches END; it executes at most five
\* nodes and none of them twice, whether the provider answers or raises.
C35_WorkflowTerminates ==
    /\ [](req.entry = "workflow" =>
             /\ Len(trace) <= 5
             /\ \A i, j \in 1..Len(trace) : trace[i] = trace[j] => i = j)
    /\ (req.entry = "workflow" /\ pc = "validate_data") ~> (pc = "END")

\* A run in which every synthesis call raised has reached END after five
\* nodes.
C35_Witness ==
    /\ req.entry = "workflow" /\ pc = "END"
    /\ Len(trace) = 5
    /\ llm.preg.raises /\ llm.bf.raises /\ llm.warn.raises /\ llm.sum.raises

\* The sentence is an entry of the list.
InList(sentence, list) == \E i \in 1..Len(list) : list[i] = sentence

\* C36: every sentence of the text that mentions a trimester and holds a
\* risk keyword, in any letter case, is in the list of each trimester it
\* mentions.
C36_SentenceInEveryTrimester ==
    LET sentences == split(biobert_text)
    IN  \A i \in 1..Len(sentences) :
           \A t \in {"first", "second", "third"} :
              ( /\ Mentions(sentences[i], t \o " trimester")
                /\ \E k \in risk_keywords : Mentions(sentences[i], k) )
              => InList(sentences[i], trimester_risks[t])

\* The same for the first trimester a sentence mentions.
C36_SentenceInFirstMentioned ==
    LET sentences == split(biobert_text)
    IN  \A i \in 1..Len(sentences) :
           ( /\ trimester_of(sentences[i]) # "none"
             /\ \E k \in risk_keywords : Mentions(sentences[i], k) )
           => InList(sentences[i], trimester_risks[trimester_of(sentences[i])])

\* C37: a run of the pipeline whose extractor had no model loaded, or whose
\* extraction raised, goes on to the synthesis with extracted data that is
\* pattern-matched, the safe defaults or empty; it ends with a result unless
\* the synthesis itself raised.
C37_ExtractionNeverFails ==
    (req.entry = "analyzer" /\ pc \in {"synthesize", "build", "returned"}) =>
       /\ biobert_extracted \in
             {extraction_result(fda_data, dailymed_data, r) : r \in BOOLEAN}
       /\ pc = "returned" =>
             \/ outcome.kind = "analysis"
             \/ outcome.kind = "raised" /\ calls.llm = 1 /\ synthesis.raised

\* The extractor had no model, the extraction of a label with text raised
\* and the run returned its result.
C37_Witness ==
    /\ req.entry = "analyzer" /\ pc = "returned"
    /\ ~model_loaded
    /\ fda_data.present /\ fda_data.has_text
    /\ biobert_extracted = extraction_defaults
    /\ outcome.kind = "analysis"
    /\ "biobert" \in {outcome.sources_used[i] :
                         i \in 1..Len(outcome.sources_used)}

\* C38: an answer of the synthesis provider that is a JSON object wrapped
\* in a markdown code fence, with the language identifier json or without,
\* gives the synthesis that the object gives unwrapped.
C38_FenceIsTransparent ==
    (req.entry = "analyzer" /\ pc \in {"build", "returned"}
       /\ calls.llm = 1 /\ ~synth_answer.raises) =>
       \A j \in JsonTexts :
          (JsonValue(j).is_object /\ synth_answer.content \in Fenced(j)) =>
             synthesis = synthesize_all_sources(
                            fda_data, dailymed_data, pubmed_data,
                            biobert_extracted, Says(<<j>>))

\* The provider answered with a fenced object under the identifier json and
\* the run returned the verdict the object holds.
C38_Witness ==
    /\ req.entry = "analyzer" /\ pc = "returned"
    /\ synth_answer = Says(<<"<fence>", "json", "{partial}", "<fence>">>)
    /\ outcome.kind = "analysis"
    /\ synthesis.pregnancy_safety = "avoid"
    /\ synthesis.breastfeeding_safety = "unknown"
    /\ synthesis.warnings = DefaultWarnings

\* C39: contextualize_assessment leaves the assessment passed in as it was,
\* and the pregnancy_safety, breastfeeding_safety, warnings and summary of
\* what it returns are those of the assessment passed in, in every medical
\* context.
C39_ContextualizeIsPure ==
    (req.entry = "analyzer" /\ pc = "returned" /\ outcome.kind = "analysis") =>
       LET passed_in == synthesize_all_sources(
                            fda_data, dailymed_data, pubmed_data,
                            biobert_extracted, synth_answer)
           returned == outcome.safety_assessment
       IN  /\ synthesis = passed_in
           /\ returned.pregnancy_safety = passed_in.pregnancy_safety
           /\ returned.breastfeeding_safety = passed_in.breastfeeding_safety
           /\ returned.warnings = passed_in.warnings
           /\ returned.summary = passed_in.summary

\* A breastfeeding caller's assessment with tagged warnings: the relevant
\* warnings were reordered in the returned copy, the warnings were not.
C39_Witness ==
    /\ req.entry = "analyzer" /\ pc = "returned" /\ outcome.kind = "analysis"
    /\ medical_context.is_breastfeeding
    /\ synthesis.warnings = TaggedWarnings
    /\ outcome.safety_assessment.warnings = TaggedWarnings
    /\ outcome.safety_assessment.relevant_warnings # TaggedWarnings
    /\ outcome.safety_assessment.breastfeeding_specific

====
